---- MODULE Spec2Model ----
(***************************************************************************)
(* Model of the GitLab platform layer of claude-code-action: the backoff   *)
(* retrier, the GitLab API client, the permission checker, the context     *)
(* resolver and the prepare entrypoint.                                    *)
(*                                                                         *)
(* JavaScript strings are sequences of chunks: the value of an environment *)
(* variable is a sequence of one-character chunks, a fixed piece of text   *)
(* of the program is one chunk.  Template literals are concatenations, so  *)
(* "the message contains X" is the subsequence test Contains.              *)
(* JavaScript values that may be undefined, null, NaN, a number or a       *)
(* string are tagged records.                                              *)
(***************************************************************************)
EXTENDS Integers, Sequences, FiniteSets, TLC

\* env: process.env.  call, ret: the operation invoked and its outcome.
\* pc: position of the prepare run.  ctx, token, client, trigger: locals of
\* the prepare run.  stdout, stderr: lines written to the console.  envFile:
\* content of prepare.env.  exitCode: exit status of the process.
\* requests: requests sent to the forge so far.
VARIABLES env, call, ret, pc, ctx, token, client, trigger, stdout, stderr,
          envFile, exitCode, requests, forge

vars == <<env, call, ret, pc, ctx, token, client, trigger, stdout, stderr,
          envFile, exitCode, requests, forge>>

(***************************************************************************)
(* Bounds of the model.                                                    *)
(***************************************************************************)
MaxAttemptsBound == 4

MaxIdLen == 2

(***************************************************************************)
(* JavaScript values.                                                      *)
(***************************************************************************)
Undefined == [t |-> "undefined"]

Null == [t |-> "null"]

NaN == [t |-> "NaN"]

Num(n) == [t |-> "number", v |-> n]

Str(s) == [t |-> "string", v |-> s]

Min(a, b) == IF a <= b THEN a ELSE b

Contains(line, part) ==
  \E i \in 1..(Len(line) - Len(part) + 1) :
    SubSeq(line, i, i + Len(part) - 1) = part

RECURSIVE SeqsUpTo(_, _)
SeqsUpTo(S, n) ==
  IF n = 0 THEN {<<>>}
  ELSE LET shorter == SeqsUpTo(S, n - 1)
       IN shorter \cup {Append(s, c) : s \in shorter, c \in S}

DigitChars == <<"0", "1", "2", "3", "4", "5", "6", "7", "8", "9">>

IsDigit(c) == \E d \in 1..10 : DigitChars[d] = c

DigitValue(c) == (CHOOSE d \in 1..10 : DigitChars[d] = c) - 1

\* String(n) for an integer n, as the template literal `${n}` prints it.
RECURSIVE NatToStr(_)
NatToStr(n) ==
  IF n < 10 THEN <<DigitChars[n + 1]>>
  ELSE Append(NatToStr(n \div 10), DigitChars[(n % 10) + 1])

NumToStr(n) == IF n < 0 THEN <<"-">> \o NatToStr(0 - n) ELSE NatToStr(n)

\* `${x}` for a tagged value.
ToStr(x) ==
  CASE x.t = "number" -> NumToStr(x.v)
    [] x.t = "NaN" -> <<"NaN">>
    [] x.t = "undefined" -> <<"undefined">>
    [] x.t = "null" -> <<"null">>
    [] x.t = "string" -> x.v

\* parseInt(s) with no radix: leading white space is skipped, one sign is
\* read, then the longest run of decimal digits; no digit gives NaN.
RECURSIVE SkipSpace(_)
SkipSpace(s) ==
  IF s # <<>> /\ Head(s) = " " THEN SkipSpace(Tail(s)) ELSE s

RECURSIVE ReadDigits(_, _, _)
ReadDigits(s, acc, seen) ==
  IF s # <<>> /\ IsDigit(Head(s))
  THEN ReadDigits(Tail(s), acc * 10 + DigitValue(Head(s)), TRUE)
  ELSE IF seen THEN Num(acc) ELSE NaN

parseInt(s) ==
  LET t == SkipSpace(s)
      neg == t # <<>> /\ Head(t) = "-"
      body == IF t # <<>> /\ Head(t) \in {"-", "+"} THEN Tail(t) ELSE t
      r == ReadDigits(body, 0, FALSE)
  IN IF r.t = "number" /\ neg THEN Num(0 - r.v) ELSE r

(***************************************************************************)
(* The network.  One fetch either throws a transport error or completes    *)
(* with a response: a status, the body text, and what response.json()      *)
(* would yield for that body.                                              *)
(***************************************************************************)
Ok(v) == [ok |-> TRUE, value |-> v]

Fail(e) == [ok |-> FALSE, error |-> e]

Error(msg) == [message |-> msg]

NetErrors == {Error(<<"ECONNRESET">>), Error(<<"ETIMEDOUT">>)}

JsonInvalid == [t |-> "invalid"]

Project(perm, branch) ==
  [t |-> "object", permissions |-> perm, default_branch |-> branch]

Permissions(access) == [t |-> "object", project_access |-> access]

Access(level) == [t |-> "object", access_level |-> level]

AccessLevels == {10, 20, 30, 40}

Bodies ==
  {[text |-> <<"<html>Bad Gateway</html>">>, json |-> JsonInvalid],
   [text |-> <<"{message:Forbidden}">>, json |-> Project(Undefined, Undefined)],
   [text |-> <<"{permissions:{project_access:null}}">>,
    json |-> Project(Permissions(Null), Str(<<"main">>))]}
  \cup {[text |-> <<"{access_level:">> \o NumToStr(l) \o <<"}">>,
         json |-> Project(Permissions(Access(Num(l))), Str(<<"main">>))] :
        l \in AccessLevels}

Statuses == {200, 403, 404, 500}

Responses == {[status |-> s, text |-> b.text, json |-> b.json] :
              s \in Statuses, b \in Bodies}

Thrown(e) == [kind |-> "throw", error |-> e]

Resp(r) == [kind |-> "resp", response |-> r]

FetchOutcomes == {Thrown(e) : e \in NetErrors} \cup {Resp(r) : r \in Responses}

\* Response.ok
ResponseOk(r) == r.status >= 200 /\ r.status <= 299

\* response.json()
Json(r) ==
  IF r.json.t = "invalid"
  THEN Fail(Error(<<"SyntaxError: Unexpected token">>))
  ELSE Ok(r.json)

(***************************************************************************)
(* Backoff Retrier (utils/retry, retryWithBackoff).  The k-th invocation   *)
(* of the operation yields outcomes[k].                                    *)
(***************************************************************************)
RECURSIVE RetryLoop(_, _, _, _, _)
RetryLoop(outcomes, policy, attempt, delay, sleeps) ==
  IF outcomes[attempt].ok
  THEN [ok |-> TRUE, value |-> outcomes[attempt].value,
        attempts |-> attempt, sleeps |-> sleeps]
  ELSE IF attempt < policy.maxAttempts
       THEN RetryLoop(outcomes, policy, attempt + 1,
                      Min(delay * policy.backoffFactor, policy.maxDelayMs),
                      Append(sleeps, delay))
       ELSE [ok |-> FALSE, error |-> outcomes[attempt].error,
             attempts |-> attempt, sleeps |-> sleeps]

retryWithBackoff(outcomes, policy) ==
  RetryLoop(outcomes, policy, 1, policy.initialDelayMs, <<>>)

(***************************************************************************)
(* GitLabApiClient (platforms/gitlab/api/client.ts).                       *)
(***************************************************************************)
ClientPolicyFour ==
  [maxAttempts |-> 4, initialDelayMs |-> 1000, maxDelayMs |-> 5000,
   backoffFactor |-> 2]

ClientPolicyLinear ==
  [maxAttempts |-> 3, initialDelayMs |-> 1000, maxDelayMs |-> 5000,
   backoffFactor |-> 1]

ClientPolicy ==
  [maxAttempts |-> 3, initialDelayMs |-> 1000, maxDelayMs |-> 5000,
   backoffFactor |-> 2]

\* The operation handed to the retrier: it returns whatever fetch resolves
\* to and fails only when fetch itself rejects.
clientOperation(f) ==
  IF f.kind = "throw" THEN Fail(f.error) ELSE Ok(f.response)

apiError(r) ==
  Error(<<"GitLab API error ">> \o NumToStr(r.status) \o <<": ">> \o r.text)

\* One invocation of the operation per answer of the network.
clientOutcomes(script) ==
  [i \in DOMAIN script |-> clientOperation(script[i])]

\* Lines 102-107 without the response.ok test.
checkResponseUnchecked(r) == r

\* Lines 102-107, r being what the retrier returned or threw.
checkResponse(r) ==
  IF ~r.ok THEN r
  ELSE IF ~ResponseOk(r.value)
       THEN [ok |-> FALSE, error |-> apiError(r.value),
             attempts |-> r.attempts, sleeps |-> r.sleeps]
       ELSE r

makeRequest(script) ==
  checkResponse(retryWithBackoff(clientOutcomes(script), ClientPolicy))

JsonMethods ==
  {"getMergeRequest", "getIssue", "createComment", "updateComment",
   "createBranch", "commitFiles", "getProject", "getBranches"}

ClientMethods == JsonMethods \cup {"getDefaultBranch", "getUserPermissions"}

\* The outcome j of an await inside a method whose request r succeeded.
Then(r, j) ==
  IF j.ok
  THEN [ok |-> TRUE, value |-> j.value,
        attempts |-> r.attempts, sleeps |-> r.sleeps]
  ELSE [ok |-> FALSE, error |-> j.error,
        attempts |-> r.attempts, sleeps |-> r.sleeps]

\* return response.json()
responseJson(r) == IF ~r.ok THEN r ELSE Then(r, Json(r.value))

\* A method that returns response.json() of its request.
jsonMethod(script) == responseJson(makeRequest(script))

updateComment(hasEntity, script) ==
  IF ~hasEntity
  THEN [ok |-> FALSE,
        error |-> Error(<<"entityId and entityType are required for GitLab updateComment">>),
        attempts |-> 0, sleeps |-> <<>>]
  ELSE jsonMethod(script)

\* project.default_branch
defaultBranchOf(p) ==
  IF ~p.ok THEN p ELSE Then(p, Ok(p.value.default_branch))

getDefaultBranch(script) == defaultBranchOf(jsonMethod(script))

\* project.permissions
permissionsOf(p) ==
  IF ~p.ok THEN p ELSE Then(p, Ok(p.value.permissions))

getUserPermissions(script) == permissionsOf(jsonMethod(script))

clientMethod(m, hasEntity, script) ==
  CASE m = "updateComment" -> updateComment(hasEntity, script)
    [] m = "getDefaultBranch" -> getDefaultBranch(script)
    [] m = "getUserPermissions" -> getUserPermissions(script)
    [] OTHER -> jsonMethod(script)

(***************************************************************************)
(* Permission checker (platforms/gitlab/validation/permissions.ts).        *)
(***************************************************************************)
Truthy(x) ==
  CASE x.t = "number" -> x.v # 0
    [] x.t = "string" -> x.v # <<>>
    [] x.t = "boolean" -> x.v
    [] x.t = "object" -> TRUE
    [] OTHER -> FALSE

TypeError == Error(<<"TypeError: Cannot read properties of undefined">>)

\* permissions.project_access?.access_level || 0
accessLevel(permissions) ==
  IF permissions.t \in {"undefined", "null"} THEN Fail(TypeError)
  ELSE LET pa == permissions.project_access
           level == IF pa.t \in {"undefined", "null"} THEN Undefined
                    ELSE pa.access_level
       IN Ok(IF Truthy(level) THEN level.v ELSE 0)

\* The body of the try block once getUserPermissions has settled as p.
levelOf(p) == IF p.ok THEN accessLevel(p.value) ELSE p

\* Lines 28-32 with a catch block that grants.
decideFailOpen(p, a) ==
  [ok |-> TRUE, value |-> IF a.ok THEN a.value >= 30 ELSE TRUE,
   logged |-> <<>>, attempts |-> p.attempts]

\* Lines 28-32: the boolean returned, and what console.error received.
decide(p, a) ==
  IF a.ok
  THEN [ok |-> TRUE, value |-> a.value >= 30, logged |-> <<>>,
        attempts |-> p.attempts]
  ELSE [ok |-> TRUE, value |-> FALSE,
        logged |-> <<<<"Failed to check permissions: ">> \o a.error.message>>,
        attempts |-> p.attempts]

decidePermissions(p) == decide(p, levelOf(p))

checkWritePermissions(script) ==
  decidePermissions(getUserPermissions(script))

\* Lines 77-81 with the guest level as the threshold.
decideCommentGuest(p, a) ==
  IF a.ok
  THEN [ok |-> TRUE, value |-> a.value >= 10, logged |-> <<>>,
        attempts |-> p.attempts]
  ELSE [ok |-> TRUE, value |-> FALSE,
        logged |-> <<<<"Failed to check comment permissions: ">>
                       \o a.error.message>>,
        attempts |-> p.attempts]

\* Lines 77-81.
decideComment(p, a) ==
  IF a.ok
  THEN [ok |-> TRUE, value |-> a.value >= 20, logged |-> <<>>,
        attempts |-> p.attempts]
  ELSE [ok |-> TRUE, value |-> FALSE,
        logged |-> <<<<"Failed to check comment permissions: ">>
                       \o a.error.message>>,
        attempts |-> p.attempts]

decideCommentPermissions(p) == decideComment(p, levelOf(p))

checkCommentPermissions(script) ==
  decideCommentPermissions(getUserPermissions(script))

\* branches.find((b) => b.name === branchName): the index of the first
\* branch of that name, 0 when there is none.
FindBranch(items, branchName) ==
  IF \E i \in 1..Len(items) : items[i].name = branchName
  THEN CHOOSE i \in 1..Len(items) :
         /\ items[i].name = branchName
         /\ \A j \in 1..(i - 1) : items[j].name # branchName
  ELSE 0

\* What checkBranchPermissions returns: the boolean, what console.error
\* received, and the fetches made for the branches and for the project.
BranchDecision(v, logged, b, n) ==
  [ok |-> TRUE, value |-> v, logged |-> logged, attempts |-> b.attempts,
   permissionAttempts |-> n]

BranchDenied(e, b, n) ==
  BranchDecision(FALSE,
                 <<<<"Failed to check branch permissions: ">> \o e.message>>,
                 b, n)

\* Lines 54-56 once the access level has settled as a.
decideProtected(b, p, a) ==
  IF a.ok THEN BranchDecision(a.value >= 40, <<>>, b, p.attempts)
  ELSE BranchDenied(a.error, b, p.attempts)

\* Lines 47-59 for the branch list items.
decideBranch(items, i, b, p) ==
  IF i = 0 THEN BranchDecision(TRUE, <<>>, b, 0)
  ELSE IF items[i].protected THEN decideProtected(b, p, levelOf(p))
  ELSE BranchDecision(TRUE, <<>>, b, 0)

\* Lines 42-63 once getBranches has settled as b; p is what
\* getUserPermissions gives when it is called.
decideBranches(branchName, b, p) ==
  IF ~b.ok THEN BranchDenied(b.error, b, 0)
  ELSE IF b.value.t # "array"
  THEN BranchDenied(Error(<<"TypeError: branches.find is not a function">>),
                    b, 0)
  ELSE decideBranch(b.value.items, FindBranch(b.value.items, branchName),
                    b, p)

checkBranchPermissions(branchName, branchScript, script) ==
  decideBranches(branchName, jsonMethod(branchScript),
                 getUserPermissions(script))

(***************************************************************************)
(* GitLab file operations server (mcp/gitlab-file-ops-server).             *)
(***************************************************************************)
EnvGet(e, n) == IF n \in DOMAIN e THEN Str(e[n]) ELSE Undefined

\* a || b
OrElse(a, b) == IF Truthy(a) THEN a ELSE b

Get(name) == [method |-> "GET", what |-> "branch", name |-> name]

GetProjectInfo == [method |-> "GET", what |-> "project", name |-> <<>>]

Post(name, ref) ==
  [method |-> "POST", what |-> "branch", name |-> name, ref |-> ref]

Raise(e, reqs) == [ok |-> FALSE, error |-> e, requests |-> reqs]

Return(v, reqs) == [ok |-> TRUE, value |-> v, requests |-> reqs]

\* fetch of one branch followed by (await response.json()).commit.id
commitIdOf(f) ==
  LET j == Json(f.response)
  IN IF j.ok THEN Ok(j.value.commit_id) ELSE j

\* Line 69: process.env.BASE_BRANCH || "main"
baseBranch(e) == OrElse(EnvGet(e, "BASE_BRANCH"), Str(<<"main">>))

\* Lines 68-119: the head commit of the base branch, or of the project's
\* default branch when the base branch lookup is not ok.
resolveBaseCommit(e, a, reqs) ==
  LET r1 == Append(reqs, Get(baseBranch(e).v))
      r2 == Append(r1, GetProjectInfo)
  IN IF a.base.kind = "throw" THEN Raise(a.base.error, r1)
     ELSE IF ResponseOk(a.base.response)
     THEN LET c == commitIdOf(a.base)
          IN IF c.ok THEN Return(c.value, r1) ELSE Raise(c.error, r1)
     ELSE IF a.project.kind = "throw" THEN Raise(a.project.error, r2)
     ELSE IF ~ResponseOk(a.project.response)
     THEN Raise(Error(<<"Failed to get project info: ">>
                      \o NumToStr(a.project.response.status)), r2)
     ELSE LET pj == Json(a.project.response)
          IN IF ~pj.ok THEN Raise(pj.error, r2)
             ELSE LET r3 == Append(r2, Get(ToStr(pj.value.default_branch)))
                  IN IF a.defaultBranch.kind = "throw"
                     THEN Raise(a.defaultBranch.error, r3)
                     ELSE IF ~ResponseOk(a.defaultBranch.response)
                     THEN Raise(Error(<<"Failed to get default branch: ">>
                            \o NumToStr(a.defaultBranch.response.status)), r3)
                     ELSE LET c == commitIdOf(a.defaultBranch)
                          IN IF c.ok THEN Return(c.value, r3)
                             ELSE Raise(c.error, r3)

\* Lines 121-143 with the branch name as the ref of the new branch.
createBranchByName(branchName, a, b, reqs) ==
  IF a.create.kind = "throw"
  THEN Raise(a.create.error, Append(reqs, Post(branchName, Str(branchName))))
  ELSE IF ~ResponseOk(a.create.response)
  THEN Raise(Error(<<"Failed to create branch: ">>
                   \o NumToStr(a.create.response.status)
                   \o <<" - ">> \o a.create.response.text),
             Append(reqs, Post(branchName, Str(branchName))))
  ELSE Return(b, Append(reqs, Post(branchName, Str(branchName))))

\* Lines 121-143: the create request with ref b, the base commit id.
createBranch(branchName, a, b, reqs) ==
  IF a.create.kind = "throw"
  THEN Raise(a.create.error, Append(reqs, Post(branchName, b)))
  ELSE IF ~ResponseOk(a.create.response)
  THEN Raise(Error(<<"Failed to create branch: ">>
                   \o NumToStr(a.create.response.status)
                   \o <<" - ">> \o a.create.response.text),
             Append(reqs, Post(branchName, b)))
  ELSE Return(b, Append(reqs, Post(branchName, b)))

\* Lines 68-143 taking a create request that is not ok as the branch
\* being there.
createFromTolerant(branchName, a, b) ==
  IF ~b.ok THEN b
  ELSE IF a.create.kind = "resp" /\ ~ResponseOk(a.create.response)
  THEN Return(b.value, Append(b.requests, Post(branchName, b.value)))
  ELSE createBranch(branchName, a, b.value, b.requests)

\* Lines 68-143 once the base commit has settled as b.
createFrom(branchName, a, b) ==
  IF ~b.ok THEN b ELSE createBranch(branchName, a, b.value, b.requests)

\* Line 59 taking no answer as the branch.
targetFoundNever(response) == FALSE

\* Line 59: branchResponse.ok
targetFound(response) == ResponseOk(response)

\* Line 64 taking every status as not found.
isNotFoundAny(response) == TRUE

\* Line 64: branchResponse.status === 404
isNotFound(response) == response.status = 404

\* Lines 59-62 once the commit id of the target has settled as c.
returnHead(c, reqs) ==
  IF c.ok THEN Return(c.value, reqs) ELSE Raise(c.error, reqs)

\* e is the environment, branchName the target, a the answers of the
\* network to the requests the function may issue.
getOrCreateBranchRef(e, branchName, a) ==
  IF a.target.kind = "throw" THEN Raise(a.target.error, <<Get(branchName)>>)
  ELSE IF targetFound(a.target.response)
  THEN returnHead(commitIdOf(a.target), <<Get(branchName)>>)
  ELSE IF ~isNotFound(a.target.response)
  THEN Raise(Error(<<"Failed to get branch: ">>
                   \o NumToStr(a.target.response.status)),
             <<Get(branchName)>>)
  ELSE createFrom(branchName, a,
                  resolveBaseCommit(e, a, <<Get(branchName)>>))

DeleteFilesPolicy ==
  [maxAttempts |-> 3, initialDelayMs |-> 1000, maxDelayMs |-> 5000,
   backoffFactor |-> 2]

\* delete_files whose commit operation returns without testing the status.
deleteFilesOperationUnchecked(f) ==
  IF f.kind = "throw" THEN Fail(f.error)
  ELSE LET j == Json(f.response)
       IN IF j.ok THEN Ok([commit |-> [id |-> j.value.id]]) ELSE j

\* The operation delete_files hands to the retrier (lines 356-388).
deleteFilesOperation(f) ==
  IF f.kind = "throw" THEN Fail(f.error)
  ELSE IF ~ResponseOk(f.response)
  THEN Fail(Error(<<"Failed to create commit: ">>
                  \o NumToStr(f.response.status) \o <<" - ">>
                  \o f.response.text))
  ELSE LET j == Json(f.response)
       IN IF j.ok THEN Ok([commit |-> [id |-> j.value.id]]) ELSE j

ToolError(e, reqs, n) ==
  [ok |-> TRUE, isError |-> TRUE, text |-> <<"Error: ">> \o e.message,
   requests |-> reqs, attempts |-> n]

\* The delete_files tool.  pathsOk: no path is absolute and outside the
\* working directory.
delete_files(e, pathsOk, a, script) ==
  IF ~pathsOk
  THEN ToolError(Error(<<"Path must be relative to repository root or within current working directory">>),
                 <<>>, 0)
  ELSE LET b == getOrCreateBranchRef(e, e["BRANCH_NAME"], a)
       IN IF ~b.ok THEN ToolError(b.error, b.requests, 0)
          ELSE LET r == retryWithBackoff(
                          [i \in DOMAIN script |-> deleteFilesOperation(script[i])],
                          DeleteFilesPolicy)
               IN IF ~r.ok THEN ToolError(r.error, b.requests, r.attempts)
                  ELSE [ok |-> TRUE, isError |-> FALSE, result |-> r.value,
                        requests |-> b.requests, attempts |-> r.attempts]

(***************************************************************************)
(* Committing files: the commit_files tool of the file operations server   *)
(* and GitLabApiClient.commitFiles.  A path and a content are sequences of *)
(* characters; a file on disk is its path and its bytes.                   *)
(***************************************************************************)
UpperLetters ==
  <<"A", "B", "C", "D", "E", "F", "G", "H", "I", "J", "K", "L", "M",
    "N", "O", "P", "Q", "R", "S", "T", "U", "V", "W", "X", "Y", "Z">>

LowerLetters ==
  <<"a", "b", "c", "d", "e", "f", "g", "h", "i", "j", "k", "l", "m",
    "n", "o", "p", "q", "r", "s", "t", "u", "v", "w", "x", "y", "z">>

ToLower(c) ==
  IF \E i \in 1..26 : UpperLetters[i] = c
  THEN LowerLetters[CHOOSE i \in 1..26 : UpperLetters[i] = c]
  ELSE c

LowerCase(s) == [i \in 1..Len(s) |-> ToLower(s[i])]

BinaryExtensions ==
  {<<"p", "n", "g">>, <<"j", "p", "g">>, <<"j", "p", "e", "g">>,
   <<"g", "i", "f">>, <<"w", "e", "b", "p">>, <<"i", "c", "o">>,
   <<"p", "d", "f">>, <<"z", "i", "p">>, <<"t", "a", "r">>, <<"g", "z">>,
   <<"e", "x", "e">>, <<"b", "i", "n">>, <<"w", "o", "f", "f">>,
   <<"w", "o", "f", "f", "2">>, <<"t", "t", "f">>, <<"e", "o", "t">>}

\* /\.(png|...|eot)$/i.test(filePath)
isBinaryFile(filePath) ==
  \E x \in BinaryExtensions :
    /\ Len(filePath) >= Len(x) + 1
    /\ LowerCase(SubSeq(filePath, Len(filePath) - Len(x), Len(filePath)))
         = <<".">> \o x

Base64Alphabet ==
  UpperLetters \o LowerLetters
  \o <<"0", "1", "2", "3", "4", "5", "6", "7", "8", "9", "+", "/">>

\* Buffer.toString("base64")
RECURSIVE Base64(_)
Base64(bytes) ==
  IF Len(bytes) = 0 THEN <<>>
  ELSE IF Len(bytes) = 1
  THEN <<Base64Alphabet[(bytes[1] \div 4) + 1],
         Base64Alphabet[(bytes[1] % 4) * 16 + 1], "=", "=">>
  ELSE IF Len(bytes) = 2
  THEN <<Base64Alphabet[(bytes[1] \div 4) + 1],
         Base64Alphabet[(bytes[1] % 4) * 16 + (bytes[2] \div 16) + 1],
         Base64Alphabet[(bytes[2] % 16) * 4 + 1], "=">>
  ELSE <<Base64Alphabet[(bytes[1] \div 4) + 1],
         Base64Alphabet[(bytes[1] % 4) * 16 + (bytes[2] \div 16) + 1],
         Base64Alphabet[(bytes[2] % 16) * 4 + (bytes[3] \div 64) + 1],
         Base64Alphabet[(bytes[3] % 64) + 1]>>
       \o Base64(SubSeq(bytes, 4, Len(bytes)))

\* The character a byte decodes to as UTF-8, for the bytes 72, 105 and
\* 255; 255 starts no UTF-8 sequence and decodes to U+FFFD.
Utf8Char(b) ==
  CASE b = 72 -> "H"
    [] b = 105 -> "i"
    [] OTHER -> "\\uFFFD"

\* readFile(path, "utf-8")
Utf8Decode(bytes) == [i \in 1..Len(bytes) |-> Utf8Char(bytes[i])]

\* Lines 188-193: a leading slash is dropped.
processedPath(filePath) ==
  IF Len(filePath) >= 1 /\ filePath[1] = "/"
  THEN SubSeq(filePath, 2, Len(filePath))
  ELSE filePath

\* Lines 205-228: the action for one file whose bytes readFile gave.
fileAction(filePath, bytes) ==
  IF isBinaryFile(filePath)
  THEN [action |-> "create", file_path |-> filePath,
        content |-> Base64(bytes), encoding |-> "base64"]
  ELSE [action |-> "create", file_path |-> filePath,
        content |-> Utf8Decode(bytes)]

\* Lines 199-230; a file that is not on disk makes readFile throw.
fileActions(files) ==
  IF \E i \in 1..Len(files) : ~files[i].exists
  THEN Fail(Error(<<"ENOENT: no such file or directory">>))
  ELSE Ok([i \in 1..Len(files) |->
             fileAction(processedPath(files[i].path), files[i].bytes)])

\* The operation commit_files hands to the retrier (lines 236-268).
commitFilesOperation(f) ==
  IF f.kind = "throw" THEN Fail(f.error)
  ELSE IF ~ResponseOk(f.response)
  THEN Fail(Error(<<"Failed to create commit: ">>
                  \o NumToStr(f.response.status) \o <<" - ">>
                  \o f.response.text))
  ELSE LET j == Json(f.response)
       IN IF j.ok THEN Ok([commit |-> [id |-> j.value.id]]) ELSE j

CommitFilesPolicy ==
  [maxAttempts |-> 3, initialDelayMs |-> 1000, maxDelayMs |-> 5000,
   backoffFactor |-> 2]

\* What the tool returns; sent is the actions of the commit requests.
CommitError(e, reqs, n, sent) ==
  [ok |-> TRUE, isError |-> TRUE, text |-> <<"Error: ">> \o e.message,
   requests |-> reqs, attempts |-> n, sent |-> sent]

\* Lines 235-292 once the retrier has settled as r.
commitSettled(b, acts, r) ==
  IF ~r.ok THEN CommitError(r.error, b.requests, r.attempts, acts)
  ELSE [ok |-> TRUE, isError |-> FALSE,
        result |-> [commit |-> [id |-> Str(<<"success">>)]],
        requests |-> b.requests, attempts |-> r.attempts, sent |-> acts]

\* Lines 199-292 once the actions have settled as acts.
commitActions(b, acts, script) ==
  IF ~acts.ok THEN CommitError(acts.error, b.requests, 0, <<>>)
  ELSE commitSettled(b, acts.value,
         retryWithBackoff(
           [i \in DOMAIN script |-> commitFilesOperation(script[i])],
           CommitFilesPolicy))

\* Lines 196-292 once getOrCreateBranchRef has settled as b.
commitOnBranch(b, files, script) ==
  IF ~b.ok THEN CommitError(b.error, b.requests, 0, <<>>)
  ELSE commitActions(b, fileActions(files), script)

\* The commit_files tool.
commit_files(e, files, a, script) ==
  commitOnBranch(getOrCreateBranchRef(e, e["BRANCH_NAME"], a), files, script)

\* client.ts, lines 186-190: the actions of commitFiles.
clientActions(files) ==
  [i \in 1..Len(files) |->
     [action |-> "create", file_path |-> files[i].path,
      content |-> files[i].content]]

\* The result of the request with the actions sent.
WithSent(r, sent) ==
  IF r.ok
  THEN [ok |-> TRUE, value |-> r.value, attempts |-> r.attempts,
        sleeps |-> r.sleeps, sent |-> sent]
  ELSE [ok |-> FALSE, error |-> r.error, attempts |-> r.attempts,
        sleeps |-> r.sleeps, sent |-> sent]

\* GitLabApiClient.commitFiles
commitFiles(files, script) ==
  WithSent(jsonMethod(script), clientActions(files))

(***************************************************************************)
(* Context resolver (platforms/gitlab/context).                            *)
(***************************************************************************)
\* Lines 46-54 without the second test.
requiredErrorIdOnly(e) ==
  IF ~Truthy(EnvGet(e, "CI_PROJECT_ID"))
  THEN Error(<<"CI_PROJECT_ID",
               " environment variable is required for GitLab context">>)
  ELSE Undefined

\* Lines 46-54: the error thrown for a missing required variable, or
\* undefined when both tests pass.
requiredError(e) ==
  IF ~Truthy(EnvGet(e, "CI_PROJECT_ID"))
  THEN Error(<<"CI_PROJECT_ID",
               " environment variable is required for GitLab context">>)
  ELSE IF \/ ~Truthy(EnvGet(e, "CI_PROJECT_NAME"))
          \/ ~Truthy(EnvGet(e, "CI_PROJECT_NAMESPACE"))
  THEN Error(<<"CI_PROJECT_NAME", " and ", "CI_PROJECT_NAMESPACE",
               " are required">>)
  ELSE Undefined

\* Lines 57-65 with the two tests in the other order.
eventTypePushFirst(e) ==
  IF /\ Truthy(EnvGet(e, "CI_COMMIT_REF_NAME"))
     /\ EnvGet(e, "CI_COMMIT_REF_NAME")
          # EnvGet(e, "CI_MERGE_REQUEST_TARGET_BRANCH_NAME")
  THEN "push"
  ELSE IF Truthy(EnvGet(e, "CI_MERGE_REQUEST_IID")) THEN "merge_request"
  ELSE "pipeline"

\* Lines 57-65 without the comparison with the merge target.
eventTypeAnyRef(e) ==
  IF Truthy(EnvGet(e, "CI_MERGE_REQUEST_IID")) THEN "merge_request"
  ELSE IF Truthy(EnvGet(e, "CI_COMMIT_REF_NAME")) THEN "push"
  ELSE "pipeline"

\* Lines 57-65.
eventType(e) ==
  IF Truthy(EnvGet(e, "CI_MERGE_REQUEST_IID")) THEN "merge_request"
  ELSE IF /\ Truthy(EnvGet(e, "CI_COMMIT_REF_NAME"))
          /\ EnvGet(e, "CI_COMMIT_REF_NAME")
               # EnvGet(e, "CI_MERGE_REQUEST_TARGET_BRANCH_NAME")
  THEN "push"
  ELSE "pipeline"

\* x !== undefined ? parseInt(x) : undefined
parseIntIfDefined(x) == IF x = Undefined THEN Undefined ELSE parseInt(x.v)

\* x ? parseInt(x) : undefined
parseIntIfSet(x) == IF Truthy(x) THEN parseInt(x.v) ELSE Undefined

\* x === "true"
IsTrue(x) == x = Str(<<"t", "r", "u", "e">>)

\* Lines 67-122; the payload snapshot, a copy of the variables, is left out.
contextOf(e) ==
  [platform |-> "gitlab",
   runId |-> OrElse(OrElse(EnvGet(e, "CI_JOB_ID"), EnvGet(e, "CI_PIPELINE_ID")),
                    Str(<<"unknown">>)),
   repository |-> [owner |-> EnvGet(e, "CI_PROJECT_NAMESPACE"),
                   name |-> EnvGet(e, "CI_PROJECT_NAME"),
                   fullName |-> EnvGet(e, "CI_PROJECT_PATH")],
   actor |-> OrElse(OrElse(EnvGet(e, "GITLAB_USER_LOGIN"),
                           EnvGet(e, "GITLAB_USER_NAME")),
                    Str(<<"unknown">>)),
   projectId |-> parseInt(e["CI_PROJECT_ID"]),
   eventType |-> eventType(e),
   mergeRequestIid |-> parseIntIfSet(EnvGet(e, "CI_MERGE_REQUEST_IID")),
   issueIid |-> Undefined,
   pipelineId |-> parseIntIfSet(EnvGet(e, "CI_PIPELINE_ID")),
   inputs |-> [prompt |-> OrElse(EnvGet(e, "PROMPT"), Str(<<>>)),
               triggerPhrase |-> OrElse(EnvGet(e, "TRIGGER_PHRASE"),
                                        Str(<<"@claude">>)),
               assigneeTrigger |-> OrElse(EnvGet(e, "ASSIGNEE_TRIGGER"),
                                          Str(<<>>)),
               labelTrigger |-> OrElse(EnvGet(e, "LABEL_TRIGGER"), Str(<<>>)),
               baseBranch |-> OrElse(EnvGet(e, "BASE_BRANCH"),
                                EnvGet(e, "CI_MERGE_REQUEST_TARGET_BRANCH_NAME")),
               branchPrefix |-> OrElse(EnvGet(e, "BRANCH_PREFIX"),
                                       Str(<<"claude/">>)),
               useStickyComment |-> IsTrue(EnvGet(e, "USE_STICKY_COMMENT")),
               useCommitSigning |-> IsTrue(EnvGet(e, "USE_COMMIT_SIGNING")),
               allowedBots |-> OrElse(EnvGet(e, "ALLOWED_BOTS"), Str(<<>>))]]

parseGitLabContext(e) ==
  IF requiredError(e) # Undefined THEN Fail(requiredError(e))
  ELSE Ok(contextOf(e))

\* process.env.GITLAB_CI === "true" || !!process.env.CI_PROJECT_ID
isGitLabEnvironment(e) ==
  IsTrue(EnvGet(e, "GITLAB_CI")) \/ Truthy(EnvGet(e, "CI_PROJECT_ID"))

\* GitLabAdapter.isCurrentPlatform
isCurrentPlatform(e) == isGitLabEnvironment(e)

\* detectPlatform testing the GitHub markers first.
detectPlatformGitHubFirst(e) ==
  IF \/ IsTrue(EnvGet(e, "GITHUB_ACTIONS"))
     \/ Truthy(EnvGet(e, "GITHUB_REPOSITORY"))
  THEN "github"
  ELSE IF IsTrue(EnvGet(e, "GITLAB_CI")) \/ Truthy(EnvGet(e, "CI_PROJECT_ID"))
  THEN "gitlab"
  ELSE "github"

\* platform-detector.ts, lines 14-27.
detectPlatform(e) ==
  IF IsTrue(EnvGet(e, "GITLAB_CI")) \/ Truthy(EnvGet(e, "CI_PROJECT_ID"))
  THEN "gitlab"
  ELSE IF \/ IsTrue(EnvGet(e, "GITHUB_ACTIONS"))
          \/ Truthy(EnvGet(e, "GITHUB_REPOSITORY"))
  THEN "github"
  ELSE "github"

(***************************************************************************)
(* Token provider (platforms/gitlab/token.ts) and adapter                  *)
(* (platforms/gitlab/adapter.ts).                                          *)
(***************************************************************************)
\* The message without the third variable name.
NoTokenErrorTwoNames ==
  Error(<<"No GitLab token found. Please provide one of:\n- ",
          "GITLAB_TOKEN", " environment variable\n- ",
          "GITLAB_ACCESS_TOKEN", " environment variable\nOr ensure ",
          "CI_JOB_TOKEN", " is available in GitLab CI/CD environment">>)

NoTokenError ==
  Error(<<"No GitLab token found. Please provide one of:\n- ",
          "GITLAB_TOKEN", " environment variable\n- ",
          "GITLAB_ACCESS_TOKEN", " environment variable\n- ",
          "PRIVATE_TOKEN", " environment variable\nOr ensure ",
          "CI_JOB_TOKEN", " is available in GitLab CI/CD environment">>)

\* getGitLabToken trying the job token before the explicit variables.
getGitLabTokenJobFirst(e) ==
  LET explicitToken == OrElse(OrElse(EnvGet(e, "GITLAB_TOKEN"),
                                     EnvGet(e, "GITLAB_ACCESS_TOKEN")),
                              EnvGet(e, "PRIVATE_TOKEN"))
      ciJobToken == EnvGet(e, "CI_JOB_TOKEN")
  IN IF Truthy(ciJobToken) /\ IsTrue(EnvGet(e, "GITLAB_CI"))
     THEN [ok |-> TRUE, value |-> ciJobToken,
           logged |-> <<<<"Using GitLab CI Job Token (limited permissions)">>>>]
     ELSE IF Truthy(explicitToken)
     THEN [ok |-> TRUE, value |-> explicitToken,
           logged |-> <<<<"Using explicit GitLab token">>>>]
     ELSE Fail(NoTokenError)

\* The value is the token; logged is what console.log received.
getGitLabToken(e) ==
  LET explicitToken == OrElse(OrElse(EnvGet(e, "GITLAB_TOKEN"),
                                     EnvGet(e, "GITLAB_ACCESS_TOKEN")),
                              EnvGet(e, "PRIVATE_TOKEN"))
      ciJobToken == EnvGet(e, "CI_JOB_TOKEN")
  IN IF Truthy(explicitToken)
     THEN [ok |-> TRUE, value |-> explicitToken,
           logged |-> <<<<"Using explicit GitLab token">>>>]
     ELSE IF Truthy(ciJobToken) /\ IsTrue(EnvGet(e, "GITLAB_CI"))
     THEN [ok |-> TRUE, value |-> ciJobToken,
           logged |-> <<<<"Using GitLab CI Job Token (limited permissions)">>>>]
     ELSE Fail(NoTokenError)

\* validateGitLabToken whose catch block accepts the token.
validateGitLabTokenFailOpen(f) ==
  IF f.kind = "throw"
  THEN [ok |-> TRUE, value |-> TRUE,
        logged |-> <<<<"Token validation failed: ">> \o f.error.message>>]
  ELSE [ok |-> TRUE, value |-> ResponseOk(f.response), logged |-> <<>>]

\* f is the outcome of the fetch of /user.  The value is the boolean
\* returned; logged is what console.error received.
validateGitLabToken(f) ==
  IF f.kind = "throw"
  THEN [ok |-> TRUE, value |-> FALSE,
        logged |-> <<<<"Token validation failed: ">> \o f.error.message>>]
  ELSE [ok |-> TRUE, value |-> ResponseOk(f.response), logged |-> <<>>]

\* getAuthToken without the isValid test.
getAuthTokenUnvalidated(e, f) ==
  LET t == getGitLabToken(e)
      v == validateGitLabToken(f)
  IN IF ~t.ok THEN [ok |-> FALSE, error |-> t.error, out |-> <<>>,
                    err |-> <<>>, validated |-> FALSE]
     ELSE [ok |-> TRUE, value |-> t.value, out |-> t.logged,
           err |-> v.logged, validated |-> TRUE]

getAuthToken(e, f) ==
  LET t == getGitLabToken(e)
      v == validateGitLabToken(f)
  IN IF ~t.ok THEN [ok |-> FALSE, error |-> t.error, out |-> <<>>,
                    err |-> <<>>, validated |-> FALSE]
     ELSE IF ~v.value
     THEN [ok |-> FALSE, error |-> Error(<<"Invalid GitLab token">>),
           out |-> t.logged, err |-> v.logged, validated |-> TRUE]
     ELSE [ok |-> TRUE, value |-> t.value, out |-> t.logged,
           err |-> v.logged, validated |-> TRUE]

\* new GitLabApiClient(token, context.projectId, baseUrl); the base URL is
\* left out.
createApiClient(e, t) ==
  LET c == parseGitLabContext(e)
  IN IF c.ok THEN Ok([token |-> t, projectId |-> c.value.projectId]) ELSE c

(***************************************************************************)
(* State machine.  A behaviour makes one call: pc moves from "idle" to     *)
(* "returned", call records the operation and its inputs (for a network    *)
(* operation the script of the answers the network gives to successive     *)
(* fetches), ret what the operation returned or threw.                     *)
(***************************************************************************)
EmptyEnv == [n \in {} |-> <<>>]

NoRun ==
  /\ ctx = Undefined
  /\ token = Undefined
  /\ client = Undefined
  /\ trigger = FALSE
  /\ stdout = <<>>
  /\ stderr = <<>>
  /\ envFile = Undefined
  /\ exitCode = Undefined
  /\ requests = <<>>
  /\ forge = Undefined

Idle ==
  /\ pc = "idle"
  /\ call = [op |-> "none"]
  /\ ret = Undefined
  /\ NoRun

Returns(c, r) ==
  /\ pc' = "returned"
  /\ call' = c
  /\ ret' = r
  /\ UNCHANGED <<forge, env, ctx, token, client, trigger, stdout, stderr, envFile,
                 exitCode, requests>>

Policies ==
  {[maxAttempts |-> n, initialDelayMs |-> i, maxDelayMs |-> m,
    backoffFactor |-> f] :
   n \in 1..MaxAttemptsBound, i \in {1000, 2000}, m \in {2000, 5000},
   f \in {1, 2, 3}}

OperationOutcomes ==
  {Ok(<<"v1">>), Ok(<<"v2">>)} \cup {Fail(e) : e \in NetErrors}

Scripts(n) == [1..n -> FetchOutcomes]

\* retryWithBackoff on an arbitrary operation under an arbitrary policy.
RetrierRun ==
  /\ pc = "idle"
  /\ \E policy \in Policies :
      \E outcomes \in [1..policy.maxAttempts -> OperationOutcomes] :
        Returns([op |-> "retryWithBackoff", policy |-> policy,
               outcomes |-> outcomes],
              retryWithBackoff(outcomes, policy))

CallClientMethod ==
  /\ pc = "idle"
  /\ \E m \in ClientMethods, hasEntity \in BOOLEAN :
      \E script \in Scripts(ClientPolicy.maxAttempts) :
        /\ (m # "updateComment") => hasEntity
        /\ Returns([op |-> m, hasEntity |-> hasEntity, script |-> script],
                 clientMethod(m, hasEntity, script))

CheckWritePermissions ==
  /\ pc = "idle"
  /\ \E script \in Scripts(ClientPolicy.maxAttempts) :
      Returns([op |-> "checkWritePermissions", script |-> script],
            checkWritePermissions(script))

Response(status, text, json) ==
  [status |-> status, text |-> text, json |-> json]

BranchJson(c) == [t |-> "object", commit_id |-> Str(c)]

CommitJson(c) == [t |-> "object", id |-> Str(c)]

NotFound == Resp(Response(404, <<"{message:404 Not Found}">>, JsonInvalid))

ServerError == Resp(Response(500, <<"<html>Bad Gateway</html>">>, JsonInvalid))

Conflict ==
  Resp(Response(400, <<"{message:Branch already exists}">>,
                [t |-> "object", id |-> Undefined]))

BranchFound(c) == Resp(Response(200, <<"{commit:{id:">> \o c \o <<"}}">>,
                                BranchJson(c)))

Forbidden == Resp(Response(403, <<"{message:403 Forbidden}">>, JsonInvalid))

BranchAnswers ==
  [target : {BranchFound(<<"c", "1">>), NotFound, ServerError, Forbidden,
             Thrown(Error(<<"ECONNRESET">>))},
   base : {BranchFound(<<"c", "2">>), NotFound},
   project : {Resp(Response(200, <<"{default_branch:trunk}">>,
                            Project(Undefined, Str(<<"trunk">>)))),
              ServerError},
   defaultBranch : {BranchFound(<<"c", "3">>), NotFound},
   create : {Resp(Response(201, <<"{name:claude/x}">>,
                           BranchJson(<<"c", "2">>))),
             Conflict}]

CommitOutcomes ==
  {Thrown(e) : e \in NetErrors}
  \cup {Resp(Response(201, <<"{id:">> \o c \o <<"}">>, CommitJson(c))) :
        c \in {<<"a", "1">>, <<"b", "2">>}}
  \cup {ServerError, Conflict}

ToolEnvs ==
  {[n \in {"BRANCH_NAME"} |-> <<"claude/x">>],
   [n \in {"BRANCH_NAME", "BASE_BRANCH"} |->
      IF n = "BRANCH_NAME" THEN <<"claude/x">> ELSE <<"d", "e", "v">>]}

DeleteFiles ==
  /\ pc = "idle"
  /\ \E e \in ToolEnvs, pathsOk \in BOOLEAN, a \in BranchAnswers :
      \E script \in [1..DeleteFilesPolicy.maxAttempts -> CommitOutcomes] :
        /\ env' = e
        /\ pc' = "returned"
        /\ call' = [op |-> "delete_files", pathsOk |-> pathsOk,
                    answers |-> a, script |-> script]
        /\ ret' = delete_files(e, pathsOk, a, script)
        /\ UNCHANGED <<forge, ctx, token, client, trigger, stdout, stderr,
                       envFile, exitCode, requests>>

CheckCommentPermissions ==
  /\ pc = "idle"
  /\ \E script \in Scripts(ClientPolicy.maxAttempts) :
      Returns([op |-> "checkCommentPermissions", script |-> script],
            checkCommentPermissions(script))

BranchItem(name, protected) ==
  [t |-> "object", name |-> name, protected |-> protected]

BranchList(items) == [t |-> "array", items |-> items]

BranchListOutcomes ==
  {Thrown(Error(<<"ECONNRESET">>)),
   ServerError,
   Resp(Response(200, <<"{message:unexpected}">>, [t |-> "object"])),
   Resp(Response(200, <<"[main]">>,
                 BranchList(<<BranchItem(<<"main">>, TRUE)>>))),
   Resp(Response(200, <<"[main,claude/x]">>,
                 BranchList(<<BranchItem(<<"main">>, TRUE),
                              BranchItem(<<"claude/x">>, FALSE)>>))),
   Resp(Response(200, <<"[claude/x*,main]">>,
                 BranchList(<<BranchItem(<<"claude/x">>, TRUE),
                              BranchItem(<<"main">>, FALSE)>>)))}

LevelOutcomes ==
  {Thrown(Error(<<"ECONNRESET">>)),
   ServerError,
   Resp(Response(200, <<"{permissions:{project_access:null}}">>,
                 Project(Permissions(Null), Str(<<"main">>))))}
  \cup {Resp(Response(200, <<"{access_level:">> \o NumToStr(l) \o <<"}">>,
                      Project(Permissions(Access(Num(l))), Str(<<"main">>)))) :
        l \in AccessLevels}

CheckBranchPermissions ==
  /\ pc = "idle"
  /\ \E branchScript \in [1..ClientPolicy.maxAttempts -> BranchListOutcomes],
        script \in [1..ClientPolicy.maxAttempts -> LevelOutcomes] :
      Returns([op |-> "checkBranchPermissions", branchName |-> <<"claude/x">>,
               branchScript |-> branchScript, script |-> script],
              checkBranchPermissions(<<"claude/x">>, branchScript, script))

\* getOrCreateBranchRef called for the branch of the environment.
GetOrCreateBranchRef ==
  /\ pc = "idle"
  /\ \E e \in ToolEnvs, a \in BranchAnswers :
       /\ env' = e
       /\ pc' = "returned"
       /\ call' = [op |-> "getOrCreateBranchRef", answers |-> a]
       /\ ret' = getOrCreateBranchRef(e, e["BRANCH_NAME"], a)
       /\ UNCHANGED <<forge, ctx, token, client, trigger, stdout, stderr,
                      envFile, exitCode, requests>>

(***************************************************************************)
(* Commits.  A behaviour commits a list of files through the commit_files  *)
(* tool or through GitLabApiClient.commitFiles.                            *)
(***************************************************************************)
Paths ==
  {<<"a", ".", "p", "n", "g">>, <<"A", ".", "P", "n", "G">>,
   <<"/", "b", ".", "g", "z">>, <<"c", ".", "t", "x", "t">>,
   <<"p", "n", "g">>, <<"d", ".", "p", "n", "g", ".", "m", "d">>}

Contents == {<<>>, <<72>>, <<72, 105>>, <<255>>, <<72, 105, 255, 72>>}

Files == [path : Paths, bytes : Contents, exists : BOOLEAN]

PairFiles ==
  {[path |-> <<"a", ".", "p", "n", "g">>, bytes |-> <<72, 105>>,
    exists |-> TRUE],
   [path |-> <<"c", ".", "t", "x", "t">>, bytes |-> <<72, 105>>,
    exists |-> TRUE],
   [path |-> <<"c", ".", "t", "x", "t">>, bytes |-> <<255>>,
    exists |-> FALSE]}

FileLists ==
  {<<f>> : f \in Files} \cup {<<f, g>> : f \in PairFiles, g \in PairFiles}

CommitBranchAnswers ==
  {a \in BranchAnswers :
     /\ a.target \in {BranchFound(<<"c", "1">>), NotFound, ServerError}
     /\ a.base = BranchFound(<<"c", "2">>)
     /\ a.project = ServerError
     /\ a.defaultBranch = NotFound
     /\ a.create # Conflict}

CommitScripts ==
  [1..CommitFilesPolicy.maxAttempts ->
     {Thrown(Error(<<"ECONNRESET">>)),
      Resp(Response(201, <<"{id:a1}">>, CommitJson(<<"a", "1">>))),
      ServerError}]

CommitFilesTool ==
  /\ pc = "idle"
  /\ \E e \in ToolEnvs, files \in FileLists, a \in CommitBranchAnswers,
        script \in CommitScripts :
       /\ env' = e
       /\ pc' = "returned"
       /\ call' = [op |-> "commit_files", files |-> files, answers |-> a,
                   script |-> script]
       /\ ret' = commit_files(e, files, a, script)
       /\ UNCHANGED <<forge, ctx, token, client, trigger, stdout, stderr,
                      envFile, exitCode, requests>>

\* The files as a caller hands them to commitFiles: the path and the file
\* read as text.
ClientFiles(files) ==
  [i \in 1..Len(files) |->
     [path |-> files[i].path, content |-> Utf8Decode(files[i].bytes)]]

ClientCommitFiles ==
  /\ pc = "idle"
  /\ \E files \in FileLists, script \in CommitScripts :
       /\ \A i \in 1..Len(files) : files[i].exists
       /\ Returns([op |-> "commitFiles", files |-> files, script |-> script],
                  commitFiles(ClientFiles(files), script))

InitCommit == env = EmptyEnv /\ Idle

NextCommit == CommitFilesTool \/ ClientCommitFiles

SpecCommit == InitCommit /\ [][NextCommit]_vars

(***************************************************************************)
(* getOrCreateBranchRef against a forge that keeps its branches: a lookup  *)
(* of a branch the forge has is answered 200 with its head, a lookup of    *)
(* another 404, and a create request adds the branch at the given ref      *)
(* unless the branch exists.  A fault replaces one answer by a 500.        *)
(***************************************************************************)
TargetBranch == <<"claude/x">>

MainBranch == <<"main">>

DevBranch == <<"d", "e", "v">>

TrunkBranch == <<"trunk">>

BranchNames == {TargetBranch, MainBranch, DevBranch, TrunkBranch}

HeadCommit(name) ==
  CASE name = TargetBranch -> <<"c", "1">>
    [] name = MainBranch -> <<"c", "2">>
    [] name = TrunkBranch -> <<"c", "3">>
    [] OTHER -> <<"c", "4">>

Forges ==
  {fg \in [branches : {[n \in S |-> HeadCommit(n)] : S \in SUBSET BranchNames},
           default_branch : {MainBranch, TrunkBranch}] :
     fg.default_branch \in DOMAIN fg.branches}

ForgeGet(fg, name) ==
  IF name \in DOMAIN fg.branches THEN BranchFound(fg.branches[name])
  ELSE NotFound

ForgeProject(fg) ==
  Resp(Response(200, <<"{default_branch:">> \o fg.default_branch \o <<"}">>,
                Project(Undefined, Str(fg.default_branch))))

ForgeCreate(fg, name) ==
  IF name \in DOMAIN fg.branches THEN Conflict
  ELSE Resp(Response(201, <<"{name:">> \o name \o <<"}">>, [t |-> "object"]))

\* The answers of the forge to the requests getOrCreateBranchRef may issue.
ForgeAnswers(fg, e, branchName) ==
  [target |-> ForgeGet(fg, branchName),
   base |-> ForgeGet(fg, baseBranch(e).v),
   project |-> ForgeProject(fg),
   defaultBranch |-> ForgeGet(fg, fg.default_branch),
   create |-> ForgeCreate(fg, branchName)]

Faults == {"none", "target", "base", "project", "defaultBranch", "create"}

Faulty(a, fault) ==
  [k \in DOMAIN a |-> IF k = fault THEN ServerError ELSE a[k]]

\* The create requests among reqs.
Creates(reqs) == {reqs[i] : i \in {j \in 1..Len(reqs) : reqs[j].method = "POST"}}

\* The forge after a call that issued reqs and was answered a.
Created(fg, a, reqs) ==
  IF Creates(reqs) = {} \/ a.create.kind = "throw"
  THEN fg
  ELSE IF ~ResponseOk(a.create.response) THEN fg
  ELSE [fg EXCEPT !.branches =
          [n \in DOMAIN fg.branches \cup {p.name : p \in Creates(reqs)} |->
             IF n \in DOMAIN fg.branches THEN fg.branches[n]
             ELSE (CHOOSE p \in Creates(reqs) : p.name = n).ref.v]]

BranchSettled(fault, a, r) ==
  /\ pc' = IF pc = "idle" THEN "once" ELSE "twice"
  /\ call' = [op |-> "getOrCreateBranchRef", fault |-> fault,
              before |-> forge, first |-> ret]
  /\ ret' = r
  /\ forge' = Created(forge, a, r.requests)
  /\ UNCHANGED <<env, ctx, token, client, trigger, stdout, stderr, envFile,
                 exitCode, requests>>

BranchAnswered(fault, a) ==
  BranchSettled(fault, a, getOrCreateBranchRef(env, env["BRANCH_NAME"], a))

\* One call of getOrCreateBranchRef; a behaviour makes two in sequence.
ResolveBranch ==
  /\ pc \in {"idle", "once"}
  /\ \E fault \in Faults :
       BranchAnswered(fault,
                      Faulty(ForgeAnswers(forge, env, env["BRANCH_NAME"]),
                             fault))

InitForge ==
  /\ env \in ToolEnvs
  /\ pc = "idle"
  /\ call = [op |-> "none"]
  /\ ret = Undefined
  /\ ctx = Undefined
  /\ token = Undefined
  /\ client = Undefined
  /\ trigger = FALSE
  /\ stdout = <<>>
  /\ stderr = <<>>
  /\ envFile = Undefined
  /\ exitCode = Undefined
  /\ requests = <<>>
  /\ forge \in Forges

NextForge == ResolveBranch

SpecForge == InitForge /\ [][NextForge]_vars

(***************************************************************************)
(* Two processes in getOrCreateBranchRef against the same forge.  Each     *)
(* fetch of the function is one step: the forge answers the request from   *)
(* the branches it holds at that moment, and a create request adds the     *)
(* branch and is answered 201, or is answered 400 when the branch is       *)
(* there.  A process is in the function until the answers it has received  *)
(* settle the call.                                                        *)
(***************************************************************************)
Procs == {1, 2}

\* The answer of a fetch that has not been awaited yet.
Pending == Thrown(Error(<<"(pending)">>))

NoAnswers ==
  [target |-> Pending, base |-> Pending, project |-> Pending,
   defaultBranch |-> Pending, create |-> Pending]

\* The fetch of the function that request number k, req, belongs to.
FetchOf(req, k) ==
  IF req.method = "POST" THEN "create"
  ELSE IF req.what = "project" THEN "project"
  ELSE IF k = 1 THEN "target"
  ELSE IF k = 2 THEN "base"
  ELSE "defaultBranch"

\* The answer of the forge to one request.
ForgeAnswer(fg, req) ==
  IF req.method = "POST" THEN ForgeCreate(fg, req.name)
  ELSE IF req.what = "project" THEN ForgeProject(fg)
  ELSE ForgeGet(fg, req.name)

\* The forge after it answered f to req.
ForgeAfter(fg, req, f) ==
  IF req.method = "POST" /\ f.kind = "resp" /\ ResponseOk(f.response)
  THEN [fg EXCEPT !.branches =
          [n \in DOMAIN fg.branches \cup {req.name} |->
             IF n \in DOMAIN fg.branches THEN fg.branches[n]
             ELSE req.ref.v]]
  ELSE fg

\* Process p holds the answers a2 after req was answered f; r is the call
\* as far as a2 takes it.
RaceSettled(p, req, f, a2, r) ==
  /\ call' = [call EXCEPT ![p] = [answers |-> a2,
                                   sent |-> Append(@.sent, req)]]
  /\ forge' = ForgeAfter(forge, req, f)
  /\ IF Len(r.requests) = Len(call[p].sent) + 1
     THEN /\ pc' = [pc EXCEPT ![p] = "settled"]
          /\ ret' = [ret EXCEPT ![p] = r]
     ELSE UNCHANGED <<pc, ret>>
  /\ UNCHANGED <<env, ctx, token, client, trigger, stdout, stderr, envFile,
                 exitCode, requests>>

RaceAnswered(p, req, f, a2) ==
  RaceSettled(p, req, f, a2,
              getOrCreateBranchRef(env, env["BRANCH_NAME"], a2))

RaceFetched(p, req, f) ==
  RaceAnswered(p, req, f,
               [call[p].answers EXCEPT
                  ![FetchOf(req, Len(call[p].sent) + 1)] = f])

RaceRequest(p, req) ==
  \E f \in {ForgeAnswer(forge, req), ServerError} : RaceFetched(p, req, f)

\* r is the call of p with the fetches not yet awaited pending: its next
\* request is the one after those already sent.
RaceNext(p, r) == RaceRequest(p, r.requests[Len(call[p].sent) + 1])

\* Process p performs the next fetch of getOrCreateBranchRef.
Fetch(p) ==
  /\ pc[p] = "fetching"
  /\ RaceNext(p, getOrCreateBranchRef(env, env["BRANCH_NAME"],
                                      call[p].answers))

InitRace ==
  /\ env \in ToolEnvs
  /\ pc = [p \in Procs |-> "fetching"]
  /\ call = [p \in Procs |-> [answers |-> NoAnswers, sent |-> <<>>]]
  /\ ret = [p \in Procs |-> Undefined]
  /\ ctx = Undefined
  /\ token = Undefined
  /\ client = Undefined
  /\ trigger = FALSE
  /\ stdout = <<>>
  /\ stderr = <<>>
  /\ envFile = Undefined
  /\ exitCode = Undefined
  /\ requests = <<>>
  /\ forge \in Forges

NextRace == \E p \in Procs : Fetch(p)

SpecRace == InitRace /\ [][NextRace]_vars

(***************************************************************************)
(* Environment snapshots.  Unset marks a variable that is not set.         *)
(***************************************************************************)
Unset == <<"(unset)">>

EnvOf(choice) ==
  [n \in {m \in DOMAIN choice : choice[m] # Unset} |-> choice[n]]

IdAlphabet == {"0", "7", "a"}

IdValues == SeqsUpTo(IdAlphabet, MaxIdLen)

ContextEnvs ==
  {EnvOf(c) :
     c \in [CI_PROJECT_ID : {Unset} \cup IdValues,
            CI_PROJECT_NAME : {Unset, <<>>, <<"d", "e", "m", "o">>},
            CI_PROJECT_NAMESPACE : {Unset, <<>>, <<"g", "r", "p">>},
            CI_PROJECT_PATH : {Unset, <<"g", "r", "p", "/", "d", "e", "m", "o">>},
            CI_MERGE_REQUEST_IID : {Unset} \cup IdValues,
            CI_MERGE_REQUEST_TARGET_BRANCH_NAME : {Unset, <<"m", "a", "i", "n">>},
            CI_COMMIT_REF_NAME : {Unset, <<>>, <<"m", "a", "i", "n">>,
                                  <<"f", "e", "a", "t">>}]}

ParseContext ==
  /\ pc = "idle"
  /\ Returns([op |-> "parseGitLabContext"], parseGitLabContext(env))

InitContext == env \in ContextEnvs /\ Idle

NextContext == ParseContext

SpecContext == InitContext /\ [][NextContext]_vars

(***************************************************************************)
(* Token provider (platforms/gitlab/token.ts) and GitLabAdapter.getAuthToken *)
(* called in an arbitrary environment.                                      *)
(***************************************************************************)
TokenA == <<"g", "l", "p", "a", "t">>

TokenB == <<"a", "c", "c">>

TokenP == <<"p", "r", "v">>

TokenJ == <<"j", "o", "b">>

TokenEnvs ==
  {EnvOf(c) :
     c \in [GITLAB_TOKEN : {Unset, <<>>, TokenA},
            GITLAB_ACCESS_TOKEN : {Unset, <<>>, TokenB},
            PRIVATE_TOKEN : {Unset, <<>>, TokenP},
            CI_JOB_TOKEN : {Unset, <<>>, TokenJ},
            GITLAB_CI : {Unset, <<"t", "r", "u", "e">>,
                         <<"f", "a", "l", "s", "e">>}]}

GetGitLabToken ==
  /\ pc = "idle"
  /\ Returns([op |-> "getGitLabToken"], getGitLabToken(env))

ValidateGitLabToken ==
  /\ pc = "idle"
  /\ \E f \in FetchOutcomes :
       Returns([op |-> "validateGitLabToken", answer |-> f],
               validateGitLabToken(f))

AdapterGetAuthToken ==
  /\ pc = "idle"
  /\ \E f \in FetchOutcomes :
       Returns([op |-> "getAuthToken", answer |-> f], getAuthToken(env, f))

InitToken == env \in TokenEnvs /\ Idle

NextToken == GetGitLabToken \/ ValidateGitLabToken \/ AdapterGetAuthToken

SpecToken == InitToken /\ [][NextToken]_vars

(***************************************************************************)
(* Platform detection: detectPlatform, then GitLabAdapter.isCurrentPlatform *)
(* in the same environment.                                                 *)
(***************************************************************************)
DetectEnvs ==
  {EnvOf(c) :
     c \in [GITLAB_CI : {Unset, <<>>, <<"t", "r", "u", "e">>,
                         <<"f", "a", "l", "s", "e">>},
            CI_PROJECT_ID : {Unset, <<>>, <<"7">>},
            GITHUB_ACTIONS : {Unset, <<"t", "r", "u", "e">>,
                              <<"f", "a", "l", "s", "e">>},
            GITHUB_REPOSITORY : {Unset, <<>>, <<"o", "/", "r">>}]}

DetectPlatform ==
  /\ pc = "idle"
  /\ Returns([op |-> "detectPlatform"], Ok(detectPlatform(env)))

IsCurrentPlatform ==
  /\ pc = "returned"
  /\ call.op = "detectPlatform"
  /\ pc' = "done"
  /\ call' = [op |-> "isCurrentPlatform", detected |-> ret.value]
  /\ ret' = Ok(isCurrentPlatform(env))
  /\ UNCHANGED <<forge, env, ctx, token, client, trigger, stdout, stderr,
                 envFile, exitCode, requests>>

InitDetect == env \in DetectEnvs /\ Idle

NextDetect == DetectPlatform \/ IsCurrentPlatform

SpecDetect == InitDetect /\ [][NextDetect]_vars

(***************************************************************************)
(* Prepare entrypoint (entrypoints/prepare-gitlab.ts), one action per      *)
(* awaited step of run().  The fixed texts of the log lines are given in   *)
(* English.                                                                *)
(***************************************************************************)
BoolStr(b) == IF b THEN <<"true">> ELSE <<"false">>

\* `${x || ""}`
OrEmpty(x) == IF Truthy(x) THEN ToStr(x) ELSE <<>>

\* The catch block of run(), lines 130-140.  fsOk: writeFile succeeds; when
\* it fails the rejection of run() is unhandled and the runtime ends the
\* process with a failure status.
Catch(msg, out, err, reqs, fsOk) ==
  /\ pc' = "exited"
  /\ stdout' = out
  /\ requests' = reqs
  /\ exitCode' = Num(1)
  /\ IF fsOk
     THEN /\ stderr' = Append(err, <<"prepare failed: ">> \o msg)
          /\ envFile' = Str(<<"PREPARE_ERROR=">> \o msg
                            \o <<"\n", "CONTAINS_TRIGGER=", "false", "\n">>)
     ELSE /\ stderr' = err \o <<<<"prepare failed: ">> \o msg,
                                <<"error: ", "EACCES: permission denied, open prepare.env">>>>
          /\ UNCHANGED envFile

\* Lines 13-27.
RunStart ==
  /\ pc = "start"
  /\ \E fsOk \in BOOLEAN :
       LET out == Append(stdout, <<"starting GitLab prepare">>)
           c == parseGitLabContext(env)
       IN IF ~isGitLabEnvironment(env)
          THEN /\ Catch(<<"not running in GitLab CI/CD">>, out, stderr,
                        requests, fsOk)
               /\ UNCHANGED <<forge, env, call, ret, ctx, token, client, trigger>>
          ELSE IF ~c.ok
          THEN /\ Catch(c.error.message, out, stderr, requests, fsOk)
               /\ UNCHANGED <<forge, env, call, ret, ctx, token, client, trigger>>
          ELSE /\ pc' = "getAuthToken"
               /\ ctx' = c.value
               /\ stdout' = Append(out, <<"parsed context: project ">>
                                        \o ToStr(c.value.projectId)
                                        \o <<", event type ",
                                             c.value.eventType>>)
               /\ UNCHANGED <<forge, env, call, ret, token, client, trigger, stderr,
                              envFile, exitCode, requests>>

ValidateAnswers ==
  {Thrown(Error(<<"ECONNRESET">>)),
   Resp(Response(200, <<"{username:bot}">>, [t |-> "object"])),
   Resp(Response(401, <<"{message:401 Unauthorized}">>, [t |-> "object"]))}

Request(method, path, t) == [method |-> method, path |-> path, token |-> t]

\* Lines 29-34 once getAuthToken has settled as a, having made reqs.
TokenSettled(a, reqs, fsOk) ==
  IF ~a.ok
  THEN /\ Catch(a.error.message, stdout \o a.out, stderr \o a.err, reqs, fsOk)
       /\ UNCHANGED <<forge, env, ret, ctx, token, client, trigger>>
  ELSE /\ pc' = "validatePermissions"
       /\ token' = a.value
       /\ client' = createApiClient(env, a.value).value
       /\ stdout' = Append(stdout \o a.out, <<"got GitLab auth token">>)
       /\ stderr' = stderr \o a.err
       /\ requests' = reqs
       /\ UNCHANGED <<forge, env, ret, ctx, trigger, envFile, exitCode>>

\* The request validateGitLabToken made, if the token was found.
ValidateRequests(a) ==
  IF a.validated
  THEN Append(requests, Request("GET", "/user", getGitLabToken(env).value))
  ELSE requests

TokenAnswered(a, fsOk) == TokenSettled(a, ValidateRequests(a), fsOk)

\* Lines 29-34: getAuthToken, then createApiClient.
GetAuthToken ==
  /\ pc = "getAuthToken"
  /\ \E f \in ValidateAnswers, fsOk \in BOOLEAN :
       /\ call' = [op |-> "getAuthToken", answer |-> f]
       /\ TokenAnswered(getAuthToken(env, f), fsOk)

\* The fetches a client method made, as requests.
RECURSIVE ClientRequests(_, _, _)
ClientRequests(path, t, n) ==
  IF n = 0 THEN <<>>
  ELSE Append(ClientRequests(path, t, n - 1), Request("GET", path, t))

PermissionOutcomes ==
  {Thrown(Error(<<"ECONNRESET">>)),
   Resp(Response(200, <<"{access_level:30}">>,
                 Project(Permissions(Access(Num(30))), Str(<<"main">>)))),
   Resp(Response(200, <<"{access_level:20}">>,
                 Project(Permissions(Access(Num(20))), Str(<<"main">>)))),
   ServerError}

\* Lines 36-44 without the test of hasPermissions.
PermissionsSettledNonFatal(r, reqs, err, fsOk) ==
  /\ pc' = "checkTrigger"
  /\ ret' = r
  /\ stdout' = Append(stdout, <<"permissions verified">>)
  /\ stderr' = err
  /\ requests' = reqs
  /\ UNCHANGED <<forge, env, call, ctx, token, client, trigger,
                 envFile, exitCode>>

\* Lines 36-44 once checkWritePermissions has settled as r.
PermissionsSettled(r, reqs, err, fsOk) ==
  IF ~r.value
  THEN /\ Catch(<<"user has insufficient permissions">>, stdout, err, reqs, fsOk)
       /\ ret' = r
       /\ UNCHANGED <<forge, env, call, ctx, token, client, trigger>>
  ELSE /\ pc' = "checkTrigger"
       /\ ret' = r
       /\ stdout' = Append(stdout, <<"permissions verified">>)
       /\ stderr' = err
       /\ requests' = reqs
       /\ UNCHANGED <<forge, env, call, ctx, token, client, trigger,
                      envFile, exitCode>>

PermissionsAnswered(r, fsOk) ==
  PermissionsSettled(r,
                     requests \o ClientRequests("/projects/:id", client.token,
                                                r.attempts),
                     stderr \o r.logged, fsOk)

\* Lines 36-44.
ValidatePermissions ==
  /\ pc = "validatePermissions"
  /\ \E script \in [1..ClientPolicy.maxAttempts -> PermissionOutcomes],
        fsOk \in BOOLEAN :
       PermissionsAnswered(checkWritePermissions(script), fsOk)

MergeRequestJson(title, description) ==
  [t |-> "object", title |-> title, description |-> description]

MergeRequestOutcomes ==
  {Thrown(Error(<<"ECONNRESET">>)),
   Resp(Response(200, <<"{title:@claude fix}">>,
                 MergeRequestJson(Str(<<"@claude", " fix">>), Null))),
   Resp(Response(200, <<"{title:fix}">>,
                 MergeRequestJson(Str(<<"fix">>), Str(<<"typo">>)))),
   Resp(Response(200, <<"{}">>, MergeRequestJson(Undefined, Undefined))),
   NotFound}

\* x?.includes(phrase) || false
Includes(x, phrase) ==
  IF x.t = "string" THEN Contains(x.v, phrase.v) ELSE FALSE

\* Lines 58-61: the title or the description holds the trigger phrase.
Found(mr) ==
  \/ Includes(mr.title, ctx.inputs.triggerPhrase)
  \/ Includes(mr.description, ctx.inputs.triggerPhrase)

\* Lines 63-65.
TriggerFound(found, reqs) ==
  /\ pc' = "writeEnv"
  /\ trigger' = found
  /\ stdout' = Append(stdout,
                      <<"checked merge request ">>
                      \o ToStr(ctx.mergeRequestIid)
                      \o <<": contains trigger phrase ">>
                      \o ctx.inputs.triggerPhrase.v \o <<": ">>
                      \o BoolStr(found))
  /\ requests' = reqs
  /\ UNCHANGED <<forge, env, call, ret, ctx, token, client, stderr, envFile, exitCode>>

\* Lines 54-65 once getMergeRequest has settled as mr, having made reqs.
MergeRequestSettled(mr, reqs, fsOk) ==
  IF ~mr.ok
  THEN /\ Catch(mr.error.message, stdout, stderr, reqs, fsOk)
       /\ UNCHANGED <<forge, env, call, ret, ctx, token, client, trigger>>
  ELSE IF mr.value.title.t # "string"
  THEN /\ Catch(TypeError.message, stdout, stderr, reqs, fsOk)
       /\ UNCHANGED <<forge, env, call, ret, ctx, token, client, trigger>>
  ELSE TriggerFound(Found(mr.value), reqs)

MergeRequestAnswered(mr, fsOk) ==
  MergeRequestSettled(mr,
                      requests
                        \o ClientRequests("/projects/:id/merge_requests/:iid",
                                          client.token, mr.attempts),
                      fsOk)

\* Lines 46-96.
CheckTrigger ==
  /\ pc = "checkTrigger"
  /\ IF ctx.eventType = "merge_request" /\ Truthy(ctx.mergeRequestIid)
     THEN \E script \in [1..ClientPolicy.maxAttempts -> MergeRequestOutcomes],
             fsOk \in BOOLEAN :
            MergeRequestAnswered(jsonMethod(script), fsOk)
     ELSE /\ pc' = "writeEnv"
          /\ IF ctx.eventType \in {"pipeline", "push"}
             THEN /\ trigger' = Truthy(ctx.inputs.prompt)
                  /\ stdout' = Append(stdout,
                                 <<"pipeline/push event: prompt provided: ">>
                                 \o BoolStr(Truthy(ctx.inputs.prompt)))
             ELSE UNCHANGED <<trigger, stdout>>
          /\ UNCHANGED <<forge, env, call, ret, ctx, token, client, stderr, envFile,
                         exitCode, requests>>

\* Lines 99-114.
envVars ==
  <<"CONTAINS_TRIGGER=">> \o BoolStr(trigger)
  \o <<"\n", "GITLAB_PROJECT_ID=">> \o ToStr(ctx.projectId)
  \o <<"\n", "EVENT_TYPE=", ctx.eventType>>
  \o <<"\n", "MERGE_REQUEST_IID=">> \o OrEmpty(ctx.mergeRequestIid)
  \o <<"\n", "ISSUE_IID=">> \o OrEmpty(ctx.issueIid)
  \o <<"\n", "PIPELINE_ID=">> \o OrEmpty(ctx.pipelineId)
  \o <<"\n", "ACTOR=">> \o ToStr(ctx.actor)
  \o <<"\n", "PROMPT=">> \o ToStr(ctx.inputs.prompt)
  \o <<"\n", "TRIGGER_PHRASE=">> \o ToStr(ctx.inputs.triggerPhrase)
  \o <<"\n", "BASE_BRANCH=">>
  \o ToStr(OrElse(ctx.inputs.baseBranch, Str(<<"main">>)))
  \o <<"\n", "BRANCH_PREFIX=">> \o ToStr(ctx.inputs.branchPrefix)
  \o <<"\n", "USE_STICKY_COMMENT=">> \o BoolStr(ctx.inputs.useStickyComment)
  \o <<"\n", "USE_COMMIT_SIGNING=">> \o BoolStr(ctx.inputs.useCommitSigning)
  \o <<"\n", "ALLOWED_BOTS=">> \o ToStr(ctx.inputs.allowedBots)

\* Lines 116-129.
WriteEnv ==
  /\ pc = "writeEnv"
  /\ \E fsOk \in BOOLEAN, fsOk2 \in BOOLEAN :
       IF ~fsOk
       THEN /\ Catch(<<"EACCES: permission denied, open prepare.env">>,
                     stdout, stderr, requests, fsOk2)
            /\ UNCHANGED <<forge, env, call, ret, ctx, token, client, trigger>>
       ELSE /\ pc' = "exited"
            /\ envFile' = Str(envVars)
            /\ stdout' = stdout
                 \o <<<<"environment written to prepare.env">>,
                      <<"::set-output name=contains_trigger::">>
                        \o BoolStr(trigger),
                      <<"::set-output name=gitlab_token::">> \o ToStr(token),
                      <<"::set-output name=project_id::">>
                        \o ToStr(ctx.projectId),
                      IF trigger
                      THEN <<"prepare finished, continuing with Claude Code">>
                      ELSE <<"no trigger detected, skipping later steps">>>>
            /\ exitCode' = Num(0)
            /\ UNCHANGED <<forge, env, call, ret, ctx, token, client, trigger,
                           stderr, requests>>

PrepareEnvs ==
  {EnvOf(c) :
     c \in [GITLAB_CI : {Unset, <<"t", "r", "u", "e">>},
            CI_PROJECT_ID : {Unset, <<"7">>},
            CI_PROJECT_NAME : {Unset, <<"d", "e", "m", "o">>},
            CI_PROJECT_NAMESPACE : {<<"g", "r", "p">>},
            CI_MERGE_REQUEST_IID : {Unset, <<"7", "0">>},
            PROMPT : {Unset, <<"d", "o">>},
            GITLAB_TOKEN : {Unset, TokenA},
            CI_JOB_TOKEN : {Unset, TokenJ}]}

InitPrepare ==
  /\ env \in PrepareEnvs
  /\ pc = "start"
  /\ call = [op |-> "run"]
  /\ ret = Undefined
  /\ NoRun

NextPrepare ==
  RunStart \/ GetAuthToken \/ ValidatePermissions \/ CheckTrigger \/ WriteEnv

SpecPrepare == InitPrepare /\ [][NextPrepare]_vars

InitApi == env = EmptyEnv /\ Idle

NextApi ==
  \/ RetrierRun
  \/ CallClientMethod
  \/ CheckWritePermissions
  \/ CheckCommentPermissions
  \/ CheckBranchPermissions
  \/ DeleteFiles
  \/ GetOrCreateBranchRef

SpecApi == InitApi /\ [][NextApi]_vars

(***************************************************************************)
(* Properties of the retrier, the client and the permission checker.       *)
(***************************************************************************)
Returned(ops) == pc = "returned" /\ call.op \in ops

AttemptFailed(f) == f.kind = "throw" \/ ~ResponseOk(f.response)

AllThrow(script) == \A i \in DOMAIN script : script[i].kind = "throw"

\* The answer of the network to the last fetch the call made.
FinalAnswer == call.script[ret.attempts]

FinalNon2xx ==
  /\ ret.attempts >= 1
  /\ FinalAnswer.kind = "resp"
  /\ ~ResponseOk(FinalAnswer.response)

\* C1: a client method retries an attempt answered with a non-2xx status:
\* while fewer than 3 attempts have been made and all of them failed
\* (transport error or non-2xx), another attempt follows, so an error
\* surfaces only after 3 failed attempts and a 2xx answer that follows
\* failed attempts is reached.
C1_Non2xxIsRetried ==
  (Returned(ClientMethods) /\ ret.attempts >= 1) =>
    \A i \in 1..2 :
      (\A j \in 1..i : AttemptFailed(call.script[j])) => ret.attempts > i

\* C2: a retrier run whose operation fails on every invocation invokes it
\* exactly maxAttempts times and fails with the error of the last
\* invocation itself; for the client (maxAttempts = 3) that is 3 fetches.
C2_ExhaustedRunFailsWithLastError ==
  /\ (/\ Returned({"retryWithBackoff"})
      /\ \A i \in DOMAIN call.outcomes : ~call.outcomes[i].ok)
       => /\ ~ret.ok
          /\ ret.attempts = call.policy.maxAttempts
          /\ ret.error = call.outcomes[call.policy.maxAttempts].error
  /\ (Returned(ClientMethods) /\ call.hasEntity /\ AllThrow(call.script))
       => /\ ~ret.ok
          /\ ret.attempts = 3
          /\ ret.error = call.script[3].error

C2_Witness ==
  /\ Returned({"getProject"})
  /\ AllThrow(call.script)
  /\ call.script[1].error # call.script[3].error
  /\ ~ret.ok
  /\ ret.attempts = 3

\* C4: the sleeps of a run start at initialDelay, each next one is
\* min(previous * backoffFactor, maxDelay), they never decrease and never
\* exceed maxDelay, there is one sleep after each failed attempt that is
\* not the last allowed one, and the client's sleeps are 1000 then 2000.
C4_SleepSequence ==
  /\ Returned({"retryWithBackoff"}) =>
       LET s == ret.sleeps
           p == call.policy
       IN /\ Len(s) = ret.attempts - 1
          /\ Len(s) <= p.maxAttempts - 1
          /\ \A i \in 1..Len(s) :
               /\ ~call.outcomes[i].ok
               /\ i < p.maxAttempts
               /\ s[i] <= p.maxDelayMs
               /\ (i = 1) => s[i] = p.initialDelayMs
               /\ (i > 1) => /\ s[i] = Min(s[i - 1] * p.backoffFactor,
                                           p.maxDelayMs)
                             /\ s[i - 1] <= s[i]
  /\ (Returned(ClientMethods) /\ ret.attempts >= 1) =>
       ret.sleeps = SubSeq(<<1000, 2000>>, 1, ret.attempts - 1)

C4_Witness ==
  /\ Returned(ClientMethods)
  /\ ret.attempts = 3
  /\ ret.sleeps = <<1000, 2000>>

\* The permission lookup failed: transport error, non-2xx answer, or a
\* project answer whose permissions / project_access is missing or whose
\* body does not parse.
LookupFailed ==
  \/ FinalAnswer.kind = "throw"
  \/ ~ResponseOk(FinalAnswer.response)
  \/ FinalAnswer.response.json.t = "invalid"
  \/ FinalAnswer.response.json.permissions.t \in {"undefined", "null"}
  \/ FinalAnswer.response.json.permissions.project_access.t
       \in {"undefined", "null"}

\* C5: checkWritePermissions always returns normally, and returns false
\* whenever the permission lookup failed.
C5_FailClosed ==
  Returned({"checkWritePermissions"}) =>
    /\ ret.ok
    /\ LookupFailed => ret.value = FALSE

C5_Witness ==
  /\ Returned({"checkWritePermissions"})
  /\ FinalAnswer.kind = "resp"
  /\ FinalAnswer.response.status = 200
  /\ FinalAnswer.response.json.t = "invalid"
  /\ ret.ok
  /\ ret.value = FALSE

\* C7: a client method whose final response is non-2xx fails, and its error
\* carries the status code and the body text of that response; responses
\* no response of another status or body would have given the same error.
C7_Non2xxSurfaces ==
  (Returned(ClientMethods) /\ FinalNon2xx) =>
    /\ ~ret.ok
    /\ Contains(ret.error.message, NumToStr(FinalAnswer.response.status))
    /\ Contains(ret.error.message, FinalAnswer.response.text)
    /\ \A r \in Responses :
         (\/ r.status # FinalAnswer.response.status
          \/ r.text # FinalAnswer.response.text)
           => apiError(r) # ret.error

C7_Witness ==
  /\ Returned({"createBranch"})
  /\ FinalNon2xx
  /\ FinalAnswer.response.status = 403
  /\ ~ret.ok

FirstSuccess(outcomes, k) ==
  /\ k \in DOMAIN outcomes
  /\ outcomes[k].ok
  /\ \A i \in 1..(k - 1) : ~outcomes[i].ok

\* The k-th commit request of delete_files is the first one answered with
\* a 2xx status and a body that parses.
FirstCommit(script, k) ==
  /\ k \in DOMAIN script
  /\ script[k].kind = "resp"
  /\ ResponseOk(script[k].response)
  /\ script[k].response.json.t # "invalid"
  /\ \A i \in 1..(k - 1) :
       \/ AttemptFailed(script[i])
       \/ script[i].response.json.t = "invalid"

\* C3: a run whose operation first succeeds on its k-th invocation returns
\* the result of that invocation after exactly k invocations; delete_files
\* whose commit request fails twice and then succeeds returns the third
\* answer's commit after exactly 3 requests.
C3_ReturnsFirstSuccess ==
  /\ Returned({"retryWithBackoff"}) =>
       \A k \in DOMAIN call.outcomes :
         FirstSuccess(call.outcomes, k) =>
           /\ ret.ok
           /\ ret.attempts = k
           /\ ret.value = call.outcomes[k].value
  /\ (Returned({"delete_files"}) /\ ret.attempts >= 1) =>
       \A k \in 1..3 :
         FirstCommit(call.script, k) =>
           /\ ~ret.isError
           /\ ret.attempts = k
           /\ ret.result.commit.id = call.script[k].response.json.id

C3_Witness ==
  /\ Returned({"delete_files"})
  /\ FirstCommit(call.script, 3)
  /\ call.script[1] = ServerError
  /\ call.script[2].kind = "throw"
  /\ ~ret.isError
  /\ ret.attempts = 3

(***************************************************************************)
(* Properties of the context resolver.                                     *)
(***************************************************************************)
RequiredFields == {"CI_PROJECT_ID", "CI_PROJECT_NAME", "CI_PROJECT_NAMESPACE"}

Missing(n) == n \notin DOMAIN env \/ env[n] = <<>>

Present(n) == ~Missing(n)

Names(e, n) == Contains(e.message, <<n>>)

\* C8: when a required identifying variable is absent or empty,
\* parseGitLabContext throws, the error names a variable that is missing,
\* and when CI_PROJECT_ID is missing it names CI_PROJECT_ID and no other
\* variable, whatever else is missing.
C8_MissingFieldFails ==
  (Returned({"parseGitLabContext"}) /\ \E n \in RequiredFields : Missing(n))
    => /\ ~ret.ok
       /\ \E n \in RequiredFields : Missing(n) /\ Names(ret.error, n)
       /\ Missing("CI_PROJECT_ID") =>
            \A n \in RequiredFields :
              Names(ret.error, n) <=> n = "CI_PROJECT_ID"

C8_Witness ==
  /\ Returned({"parseGitLabContext"})
  /\ Present("CI_PROJECT_ID")
  /\ Present("CI_PROJECT_NAME")
  /\ "CI_PROJECT_NAMESPACE" \in DOMAIN env
  /\ env["CI_PROJECT_NAMESPACE"] = <<>>
  /\ ~ret.ok
  /\ Names(ret.error, "CI_PROJECT_NAMESPACE")

IsNumeral(s) == s # <<>> /\ \A i \in 1..Len(s) : IsDigit(s[i])

\* The number a decimal numeral denotes.
RECURSIVE NumeralValue(_)
NumeralValue(s) ==
  IF s = <<>> THEN 0
  ELSE NumeralValue(SubSeq(s, 1, Len(s) - 1)) * 10 + DigitValue(s[Len(s)])

NonEmptyString(x) == x.t = "string" /\ x.v # <<>>

\* C9: every context parseGitLabContext returns has a projectId that is a
\* number, the one CI_PROJECT_ID denotes, and an owner, a name and a
\* fullName that are non-empty strings.
C9_IdentityPopulated ==
  (Returned({"parseGitLabContext"}) /\ ret.ok) =>
    /\ ret.value.projectId.t = "number"
    /\ IsNumeral(env["CI_PROJECT_ID"])
    /\ ret.value.projectId.v = NumeralValue(env["CI_PROJECT_ID"])
    /\ NonEmptyString(ret.value.repository.owner)
    /\ NonEmptyString(ret.value.repository.name)
    /\ NonEmptyString(ret.value.repository.fullName)

\* C10: when CI_MERGE_REQUEST_IID is present and parseGitLabContext
\* returns, the event type is merge_request, and mergeRequestIid is the
\* number the identifier denotes when it is a decimal numeral.
C10_MergeRequestWins ==
  (Returned({"parseGitLabContext"}) /\ ret.ok
     /\ Present("CI_MERGE_REQUEST_IID")) =>
    /\ ret.value.eventType = "merge_request"
    /\ IsNumeral(env["CI_MERGE_REQUEST_IID"]) =>
         ret.value.mergeRequestIid
           = Num(NumeralValue(env["CI_MERGE_REQUEST_IID"]))

C10_Witness ==
  /\ Returned({"parseGitLabContext"})
  /\ ret.ok
  /\ Present("CI_MERGE_REQUEST_IID")
  /\ env["CI_MERGE_REQUEST_IID"] = <<"7", "0">>
  /\ "CI_COMMIT_REF_NAME" \in DOMAIN env
  /\ "CI_MERGE_REQUEST_TARGET_BRANCH_NAME" \notin DOMAIN env
  /\ ret.value.eventType = "merge_request"
  /\ ret.value.mergeRequestIid = Num(70)

\* The commit reference is present and is not the merge target; an absent
\* target is not the commit reference.
RefDiffers ==
  /\ Present("CI_COMMIT_REF_NAME")
  /\ \/ "CI_MERGE_REQUEST_TARGET_BRANCH_NAME" \notin DOMAIN env
     \/ env["CI_COMMIT_REF_NAME"] # env["CI_MERGE_REQUEST_TARGET_BRANCH_NAME"]

\* C11: when no merge-request identifier is present and
\* parseGitLabContext returns, the event type is push exactly when
\* CI_COMMIT_REF_NAME is present and differs from the merge-target
\* reference (an absent target differs), and pipeline otherwise.
C11_PushOrPipeline ==
  (Returned({"parseGitLabContext"}) /\ ret.ok
     /\ Missing("CI_MERGE_REQUEST_IID")) =>
    /\ ret.value.eventType \in {"push", "pipeline"}
    /\ ret.value.eventType = "push" <=> RefDiffers

C11_Witness ==
  /\ Returned({"parseGitLabContext"})
  /\ ret.ok
  /\ "CI_MERGE_REQUEST_IID" \notin DOMAIN env
  /\ "CI_MERGE_REQUEST_TARGET_BRANCH_NAME" \notin DOMAIN env
  /\ Present("CI_COMMIT_REF_NAME")
  /\ env["CI_COMMIT_REF_NAME"] = <<"f", "e", "a", "t">>
  /\ ret.value.eventType = "push"

\* C28: in every context parseGitLabContext returns, issueIid is
\* undefined, the event type is merge_request, push or pipeline, and
\* mergeRequestIid is defined exactly when the event type is merge_request.
C28_IidMatchesEvent ==
  (Returned({"parseGitLabContext"}) /\ ret.ok) =>
    /\ ret.value.issueIid = Undefined
    /\ ret.value.eventType \in {"merge_request", "push", "pipeline"}
    /\ ret.value.mergeRequestIid # Undefined
         <=> ret.value.eventType = "merge_request"

C28_Witness ==
  /\ Returned({"parseGitLabContext"})
  /\ ret.ok
  /\ "CI_MERGE_REQUEST_IID" \in DOMAIN env
  /\ env["CI_MERGE_REQUEST_IID"] = <<>>
  /\ ret.value.eventType = "push"
  /\ ret.value.mergeRequestIid = Undefined
  /\ ret.value.issueIid = Undefined

\* The answer f reports the access level l of the acting identity.
HasLevel(f, l) ==
  /\ f.kind = "resp"
  /\ f.response.status \in 200..299
  /\ f.response.json.t = "object"
  /\ f.response.json.permissions.t = "object"
  /\ f.response.json.permissions.project_access.t = "object"
  /\ f.response.json.permissions.project_access.access_level = Num(l)

\* The branch list the call received holds the branch as protected.
TargetProtected ==
  /\ ret.attempts >= 1
  /\ call.branchScript[ret.attempts].kind = "resp"
  /\ call.branchScript[ret.attempts].response.status \in 200..299
  /\ call.branchScript[ret.attempts].response.json.t = "array"
  /\ \E i \in 1..Len(call.branchScript[ret.attempts].response.json.items) :
       /\ call.branchScript[ret.attempts].response.json.items[i].name
            = call.branchName
       /\ call.branchScript[ret.attempts].response.json.items[i].protected

GitLabMarker ==
  \/ ("GITLAB_CI" \in DOMAIN env /\ env["GITLAB_CI"] = <<"t", "r", "u", "e">>)
  \/ Present("CI_PROJECT_ID")

GitHubMarker ==
  \/ ("GITHUB_ACTIONS" \in DOMAIN env
        /\ env["GITHUB_ACTIONS"] = <<"t", "r", "u", "e">>)
  \/ Present("GITHUB_REPOSITORY")

\* C24: detectPlatform returns gitlab exactly when isCurrentPlatform is
\* true, which is exactly when GITLAB_CI is "true" or CI_PROJECT_ID is
\* non-empty; otherwise it returns github; neither issues a request.
C24_DetectAgrees ==
  /\ Returned({"detectPlatform"}) =>
       /\ ret.value \in {"gitlab", "github"}
       /\ ret.value = "gitlab" <=> GitLabMarker
       /\ requests = <<>>
  /\ (pc = "done" /\ call.op = "isCurrentPlatform") =>
       /\ ret.value <=> GitLabMarker
       /\ call.detected = "gitlab" <=> ret.value
       /\ requests = <<>>

C24_Witness ==
  /\ pc = "done"
  /\ call.op = "isCurrentPlatform"
  /\ GitLabMarker
  /\ GitHubMarker
  /\ call.detected = "gitlab"
  /\ ret.value = TRUE

(***************************************************************************)
(* Properties of getOrCreateBranchRef.                                     *)
(***************************************************************************)
Posts(reqs) == {i \in 1..Len(reqs) : reqs[i].method = "POST"}

Answered2xx(f) == f.kind = "resp" /\ f.response.status \in 200..299

AnsweredWith(f, status) == f.kind = "resp" /\ f.response.status = status

\* The head commit id a branch lookup reported.
HeadOf(f) == f.response.json.commit_id

\* C18: when the target lookup is answered 404, the base-branch lookup
\* succeeds and the create request succeeds, getOrCreateBranchRef issues
\* exactly one create request, its ref is the head commit id of the base
\* branch, and that commit id is returned.
C18_CreatesFromBase ==
  (/\ Returned({"getOrCreateBranchRef"})
   /\ AnsweredWith(call.answers.target, 404)
   /\ Answered2xx(call.answers.base)
   /\ Answered2xx(call.answers.create)) =>
    /\ ret.ok
    /\ ret.value = HeadOf(call.answers.base)
    /\ Cardinality(Posts(ret.requests)) = 1
    /\ \A i \in Posts(ret.requests) :
         ret.requests[i] = Post(env["BRANCH_NAME"], HeadOf(call.answers.base))

C18_Witness ==
  /\ Returned({"getOrCreateBranchRef"})
  /\ AnsweredWith(call.answers.target, 404)
  /\ Answered2xx(call.answers.base)
  /\ Answered2xx(call.answers.create)
  /\ ret.ok
  /\ ret.value = Str(<<"c", "2">>)
  /\ Len(ret.requests) = 3

\* C20: when the target lookup is answered with a non-2xx status, a 404
\* lets the call go on to the base-branch lookup and is never the error
\* of the call, and any other status makes the call fail with the target
\* lookup as its only request.
C20_Only404IsNotFound ==
  (/\ Returned({"getOrCreateBranchRef"})
   /\ call.answers.target.kind = "resp"
   /\ ~Answered2xx(call.answers.target)) =>
    IF AnsweredWith(call.answers.target, 404)
    THEN /\ Len(ret.requests) >= 2
         /\ ret.requests[2].method = "GET"
         /\ ~ret.ok => ret.error.message[1] # "Failed to get branch: "
    ELSE /\ ~ret.ok
         /\ ret.error.message[1] = "Failed to get branch: "
         /\ ret.requests = <<Get(env["BRANCH_NAME"])>>

C20_Witness ==
  /\ Returned({"getOrCreateBranchRef"})
  /\ AnsweredWith(call.answers.target, 403)
  /\ Answered2xx(call.answers.base)
  /\ Answered2xx(call.answers.create)
  /\ ~ret.ok
  /\ Len(ret.requests) = 1

Called == call.op = "getOrCreateBranchRef" /\ call.fault # "target"

\* C17: against a forge that has the target branch, getOrCreateBranchRef
\* returns the head of that branch with the target lookup as its only
\* request and leaves the forge as it was; and the second of two calls in
\* sequence, the first of which returned, returns what the first returned,
\* the head the forge holds for the branch, issues no create request and
\* leaves the forge as the first call left it.
C17_Idempotent ==
  /\ (pc \in {"once", "twice"} /\ Called
        /\ env["BRANCH_NAME"] \in DOMAIN call.before.branches) =>
       /\ ret.ok
       /\ ret.value = Str(call.before.branches[env["BRANCH_NAME"]])
       /\ ret.requests = <<Get(env["BRANCH_NAME"])>>
       /\ forge = call.before
  /\ (pc = "twice" /\ Called /\ call.first.ok) =>
       /\ env["BRANCH_NAME"] \in DOMAIN forge.branches
       /\ ret.ok
       /\ ret.value = call.first.value
       /\ ret.value = Str(forge.branches[env["BRANCH_NAME"]])
       /\ Creates(ret.requests) = {}
       /\ forge = call.before

C17_Witness ==
  /\ pc = "twice"
  /\ Called
  /\ call.first.ok
  /\ Creates(call.first.requests) # {}
  /\ ret.ok
  /\ Len(ret.requests) = 1
  /\ forge = call.before

\* C19: when getOrCreateBranchRef creates the target branch, the ref of the
\* create request is the head of the BASE_BRANCH override when one is set
\* and the forge has that branch, and with no override set it is the head
\* of the default branch the project reports.
C19_BaseIsOverrideOrDefault ==
  (pc \in {"once", "twice"} /\ Creates(ret.requests) # {}) =>
    \A p \in Creates(ret.requests) :
      IF "BASE_BRANCH" \in DOMAIN env
      THEN env["BASE_BRANCH"] \in DOMAIN call.before.branches =>
             p.ref = Str(call.before.branches[env["BASE_BRANCH"]])
      ELSE p.ref = Str(call.before.branches[call.before.default_branch])

\* Process p received a 404 for its lookup of the target branch.
Observed404(p) == call[p].answers.target = NotFound

\* Process p's create request was answered 2xx.
Won(p) == Answered2xx(call[p].answers.create)

\* Process p's create request was answered with the forge's conflict.
Lost(p) == call[p].answers.create = Conflict

\* C27: of two processes in getOrCreateBranchRef for the same branch, at
\* most one has its create request accepted, the branch stays at the ref
\* of the accepted request, and a process whose create request is answered
\* with the conflict has ended with the error "Failed to create branch:
\* 400 - <body>", its create request being its last request and its one
\* lookup of the target its first.
C27_LoserGetsConflict ==
  /\ Cardinality({p \in Procs : Won(p)}) <= 1
  /\ \A p \in Procs :
       Won(p) =>
         /\ env["BRANCH_NAME"] \in DOMAIN forge.branches
         /\ \A i \in Posts(call[p].sent) :
              Str(forge.branches[env["BRANCH_NAME"]]) = call[p].sent[i].ref
  /\ \A p \in Procs :
       Lost(p) =>
         /\ pc[p] = "settled"
         /\ ~ret[p].ok
         /\ ret[p].error
              = Error(<<"Failed to create branch: ">> \o NumToStr(400)
                        \o <<" - ">> \o Conflict.response.text)
         /\ ret[p].requests = call[p].sent
         /\ Posts(call[p].sent) = {Len(call[p].sent)}
         /\ {i \in 1..Len(call[p].sent) :
               call[p].sent[i] = Get(env["BRANCH_NAME"])} = {1}

C27_Witness ==
  /\ \A p \in Procs : Observed404(p) /\ Posts(call[p].sent) # {}
  /\ \E p, q \in Procs :
       /\ Won(p)
       /\ ret[p].ok
       /\ Lost(q)
       /\ ~ret[q].ok
       /\ pc[q] = "settled"

(***************************************************************************)
(* Properties of the commit paths.                                         *)
(***************************************************************************)
Dots(path) == {i \in 1..Len(path) : path[i] = "."}

\* The extension of the path, the text after its last dot in lower case,
\* is on the binary allow-list.
OnAllowList(path) ==
  /\ Dots(path) # {}
  /\ LowerCase(SubSeq(path,
                      (CHOOSE i \in Dots(path) : \A j \in Dots(path) : j <= i)
                        + 1,
                      Len(path))) \in BinaryExtensions

\* The action sent for file f is encoded by the class of its extension.
EncodedByClass(act, f) ==
  IF OnAllowList(act.file_path)
  THEN /\ act.content = Base64(f.bytes)
       /\ "encoding" \in DOMAIN act
       /\ act.encoding = "base64"
  ELSE /\ act.content = Utf8Decode(f.bytes)
       /\ "encoding" \notin DOMAIN act

\* C25: every file action of every commit request, sent by the
\* commit_files tool or by GitLabApiClient.commitFiles, carries the file
\* base64-encoded and marked base64 when its extension is on the binary
\* allow-list, and carries its text with no encoding marker otherwise.
C25_EncodedByExtension ==
  (Returned({"commit_files", "commitFiles"}) /\ ret.attempts >= 1) =>
    /\ Len(ret.sent) = Len(call.files)
    /\ \A i \in 1..Len(ret.sent) : EncodedByClass(ret.sent[i], call.files[i])

(***************************************************************************)
(* Properties of the token provider.                                       *)
(***************************************************************************)
ExplicitNames == <<"GITLAB_TOKEN", "GITLAB_ACCESS_TOKEN", "PRIVATE_TOKEN">>

\* C12: when an explicit token variable is set, getGitLabToken returns the
\* value of the first set one in the order GITLAB_TOKEN,
\* GITLAB_ACCESS_TOKEN, PRIVATE_TOKEN, whatever CI_JOB_TOKEN and GITLAB_CI
\* hold.
C12_ExplicitFirst ==
  Returned({"getGitLabToken"}) =>
    \A i \in 1..3 :
      (Present(ExplicitNames[i]) /\ \A j \in 1..(i - 1) : Missing(ExplicitNames[j]))
        => ret.ok /\ ret.value = Str(env[ExplicitNames[i]])

C12_Witness ==
  /\ Returned({"getGitLabToken"})
  /\ Missing("GITLAB_TOKEN")
  /\ Present("GITLAB_ACCESS_TOKEN")
  /\ Present("PRIVATE_TOKEN")
  /\ Present("CI_JOB_TOKEN")
  /\ "GITLAB_CI" \in DOMAIN env
  /\ env["GITLAB_CI"] = <<"t", "r", "u", "e">>
  /\ ret.ok
  /\ ret.value = Str(TokenB)

NoExplicit == \A i \in 1..3 : Missing(ExplicitNames[i])

\* C13: when no explicit token variable is set and CI_JOB_TOKEN is present,
\* getGitLabToken returns the job token; it fails only when neither an
\* explicit variable nor the job token is present.
C13_JobTokenFallback ==
  Returned({"getGitLabToken"}) =>
    /\ (NoExplicit /\ Present("CI_JOB_TOKEN")) =>
         ret.ok /\ ret.value = Str(env["CI_JOB_TOKEN"])
    /\ ~ret.ok => (NoExplicit /\ Missing("CI_JOB_TOKEN"))

\* C14: when none of the three explicit variables and no job token is set,
\* getGitLabToken throws, returns no value, and the message names
\* GITLAB_TOKEN, GITLAB_ACCESS_TOKEN and PRIVATE_TOKEN.
C14_NoSourceFails ==
  (Returned({"getGitLabToken"}) /\ NoExplicit /\ Missing("CI_JOB_TOKEN")) =>
    /\ ~ret.ok
    /\ "value" \notin DOMAIN ret
    /\ \A i \in 1..3 : Names(ret.error, ExplicitNames[i])

C14_Witness ==
  /\ Returned({"getGitLabToken"})
  /\ \A i \in 1..3 : ExplicitNames[i] \notin DOMAIN env
  /\ "CI_JOB_TOKEN" \notin DOMAIN env
  /\ "GITLAB_CI" \in DOMAIN env
  /\ env["GITLAB_CI"] = <<"t", "r", "u", "e">>
  /\ ~ret.ok

\* C15: validateGitLabToken never throws; it returns true when the request
\* to /user is answered with a 2xx status and false when it is answered
\* with another status or fails in transport.
C15_ValidateNeverThrows ==
  Returned({"validateGitLabToken"}) =>
    /\ ret.ok
    /\ ret.value <=> /\ call.answer.kind = "resp"
                     /\ call.answer.response.status \in 200..299

C15_Witness ==
  /\ Returned({"validateGitLabToken"})
  /\ call.answer.kind = "throw"
  /\ ret.ok
  /\ ret.value = FALSE

(***************************************************************************)
(* Properties of the prepare run.                                          *)
(***************************************************************************)
\* The credential the token provider resolves for this environment.
Credential == getGitLabToken(env).value.v

InLines(lines, secret) ==
  \E i \in 1..Len(lines) : Contains(lines[i], secret)

\* The answer to the validation request was a 2xx response.
Accepted ==
  /\ call.answer.kind = "resp"
  /\ call.answer.response.status \in 200..299

ValidationRequests == {i \in 1..Len(requests) : requests[i].path = "/user"}

\* C16: in the prepare run a token is held, and an API client exists, only
\* after the validation request for that same credential was answered with
\* a 2xx status; when a credential was found and validation did not accept
\* it the run fails with "Invalid GitLab token", the validation request was
\* issued once, no client exists and no other request was issued.
C16_ValidatedBeforeUse ==
  /\ call.op = "run" =>
       token = Undefined /\ client = Undefined /\ requests = <<>>
  /\ call.op = "getAuthToken" =>
       /\ Cardinality(ValidationRequests) <= 1
       /\ (token # Undefined \/ client # Undefined) =>
            /\ Accepted
            /\ token = Str(Credential)
            /\ client.token = token
            /\ requests[1] = Request("GET", "/user", token)
       /\ (getGitLabToken(env).ok /\ ~Accepted) =>
            /\ pc = "exited"
            /\ exitCode = Num(1)
            /\ token = Undefined
            /\ client = Undefined
            /\ requests = <<Request("GET", "/user", Str(Credential))>>
            /\ InLines(stderr, <<"Invalid GitLab token">>)

C16_Witness ==
  /\ call.op = "getAuthToken"
  /\ call.answer.kind = "resp"
  /\ call.answer.response.status = 401
  /\ pc = "exited"
  /\ client = Undefined
  /\ Len(requests) = 1
  /\ InLines(stderr, <<"Invalid GitLab token">>)

\* Context resolution, authentication and the permission check passed.
PermissionsPassed == InLines(stdout, <<"permissions verified">>)

\* C22: a prepare run in which context resolution, authentication and the
\* permission check passed exits with code 0.
C22_ExitZeroAfterChecks ==
  (pc = "exited" /\ PermissionsPassed) => exitCode = Num(0)

\* The run reached the top-level catch.
Failed == InLines(stderr, <<"prepare failed: ">>)

\* C23: a prepare run that reached the top-level catch exits non-zero, and
\* every run that exits non-zero has written prepare.env with a
\* PREPARE_ERROR field and CONTAINS_TRIGGER=false.
C23_FailureWritesFile ==
  pc = "exited" =>
    /\ Failed => exitCode # Num(0)
    /\ exitCode # Num(0) =>
         /\ envFile.t = "string"
         /\ Contains(envFile.v, <<"PREPARE_ERROR=">>)
         /\ Contains(envFile.v, <<"CONTAINS_TRIGGER=", "false", "\n">>)

\* The requests issued through the API client.
ClientRequestsMade ==
  {i \in 1..Len(requests) : requests[i].path # "/user"}

\* The requests other than the permission lookup issued through the client.
ForgeOperations ==
  {i \in 1..Len(requests) : requests[i].path \notin {"/user", "/projects/:id"}}

\* validatePermissions has returned true.
Permitted == ret # Undefined /\ ret.value

\* C26: the prepare run holds a context only after the platform check
\* passed, a token only with a context, a client only with a token, and
\* a result of validatePermissions only with a client; a failed step ends
\* the run; requests go through the client only once it exists, requests
\* other than the permission lookup only after validatePermissions
\* returned true, and a false result ends the run with exit code 1.
C26_PipelineOrder ==
  /\ ctx # Undefined => GitLabMarker
  /\ token # Undefined => ctx # Undefined
  /\ client # Undefined => token # Undefined
  /\ ret # Undefined => client # Undefined
  /\ pc = "start" => ctx = Undefined
  /\ pc = "getAuthToken" => (ctx # Undefined /\ token = Undefined)
  /\ pc = "validatePermissions" => (client # Undefined /\ ret = Undefined)
  /\ pc \in {"checkTrigger", "writeEnv"} => Permitted
  /\ Failed => pc = "exited"
  /\ ClientRequestsMade # {} => client # Undefined
  /\ ForgeOperations # {} => Permitted
  /\ (ret # Undefined /\ ~ret.value) =>
       /\ pc = "exited"
       /\ exitCode = Num(1)
       /\ Failed
       /\ trigger = FALSE

C26_Witness ==
  /\ pc = "exited"
  /\ Present("CI_MERGE_REQUEST_IID")
  /\ ret # Undefined
  /\ ~ret.value
  /\ ClientRequestsMade # {}
  /\ ForgeOperations = {}
  /\ exitCode = Num(1)

\* C6: no line of standard output or standard error and no content of
\* prepare.env contains the full credential.
C6_TokenNeverWritten ==
  getGitLabToken(env).ok =>
    /\ ~InLines(stdout, Credential)
    /\ ~InLines(stderr, Credential)
    /\ envFile.t = "string" => ~Contains(envFile.v, Credential)

====
